---- MODULE Spec2Model ----
(***************************************************************************)
(* Model of the analysis worker of DeepFake_Forensic                       *)
(* (src/py/server/kafka_worker.py): the consumer loop worker_loop, the     *)
(* task handlers process_*, the input resolver _ensure_video_path, the     *)
(* artifact publisher _upload_artifacts and the progress writer            *)
(* update_progress, together with the three external stores they talk to:  *)
(* the Redis progress records, the Redis dedup markers and the Kafka       *)
(* result topic.  Every call that can raise (store, producer, download,    *)
(* detector, upload) has both outcomes.  update_progress issues two store  *)
(* commands, HSET and EXPIRE; each is a step of its own, and between the   *)
(* two the other consumers and the clock go on.                            *)
(***************************************************************************)
EXTENDS Integers, Sequences, FiniteSets, TLC

(***************************************************************************)
(* Bounds of the model.                                                    *)
(***************************************************************************)
MaxDeliveries == 2      \* messages handed out by the queue in one run
TickSeconds == 43200    \* seconds per clock tick

(***************************************************************************)
(* Program constants.                                                      *)
(***************************************************************************)
PROGRESS_TTL == 3600
MARKER_TTL == 24 * 3600

None == "None"                  \* Python's None / a field that is absent
NoExpiry == 0 - 1               \* a key that carries no TTL
TimeId == "time"                \* str(int(time.time()))
StoreErr == "redis: connection error"
SendErr == "kafka: send failed"
DownloadErr == "Failed to download video from URL: timeout"
DetectorErr == "detector: analysis failed"
MkdirErr == "[Errno 13] Permission denied: 'tmp_py'"
ImageDownloadErr == "Failed to download image from URL: timeout"
KnownModel == "m1"              \* a key of the models registry
ImageUrl == "http://minio/in.png"
\* base64 of a PNG file of one pixel
PngPixel ==
    "iVBORw0KGgoAAAANSUhEUgAAAAEAAAABCAAAAAA6fptVAAAACklEQVR42mNgAAAAAgAB5Sfe/AAAAABJRU5ErkJggg=="
LocalVideo == "/data/in.mp4"
VideoUrl == "http://minio/in.mp4"
Downloaded == "/tmp/dl.mp4"

VideoTypes ==
    {"VIDEO_TRADITIONAL_NOISE", "VIDEO_TRADITIONAL_FLOW", "VIDEO_TRADITIONAL_FREQ",
     "VIDEO_TRADITIONAL_TEMPORAL", "VIDEO_TRADITIONAL_COPYMOVE"}

\* the type values worker_loop dispatches on
DispatchTypes == {"IMAGE_AI", "VIDEO_AI"} \cup VideoTypes

\* the artifacts dict each video handler builds, in insertion order
ArtifactNames(type) ==
    CASE type = "VIDEO_TRADITIONAL_NOISE" ->
            <<"temporal_plot", "distribution_plot", "visualization">>
      [] type = "VIDEO_TRADITIONAL_FLOW" ->
            <<"flow_visualization", "flow_magnitude_plot", "flow_anomaly_heatmap">>
      [] type = "VIDEO_TRADITIONAL_FREQ" ->
            <<"frequency_spectrum", "frequency_analysis_plot", "frequency_heatmap">>
      [] type = "VIDEO_TRADITIONAL_TEMPORAL" ->
            <<"temporal_plot", "temporal_heatmap">>
      [] type = "VIDEO_TRADITIONAL_COPYMOVE" ->
            <<"copy_move_heatmap">>
      [] OTHER -> <<>>

\* the 'method' field of a video handler's result
MethodOf(type) ==
    CASE type = "VIDEO_TRADITIONAL_NOISE" -> "NOISE"
      [] type = "VIDEO_TRADITIONAL_FLOW" -> "FLOW"
      [] type = "VIDEO_TRADITIONAL_FREQ" -> "FREQUENCY"
      [] type = "VIDEO_TRADITIONAL_TEMPORAL" -> "TEMPORAL"
      [] type = "VIDEO_TRADITIONAL_COPYMOVE" -> "COPYMOVE"
      [] OTHER -> None

(***************************************************************************)
(* Messages of the task topics.  obj = FALSE is a message whose JSON value *)
(* is not an object (a list, a string, a number).  url stands for          *)
(* task.get('url') or task.get('minioUrl'); a field that is None is absent *)
(* from the message.                                                       *)
(***************************************************************************)
NotAnObject ==
    [obj |-> FALSE, type |-> None, taskId |-> None, fileMd5 |-> None,
     localPath |-> None, url |-> None, sampleFrames |-> None, noiseSigma |-> None,
     model |-> None, imageBytes |-> None, imageUrl |-> None]

Msg(ty, ids, src, img) ==
    [obj |-> TRUE, type |-> ty, taskId |-> ids[1], fileMd5 |-> ids[2],
     localPath |-> src[1], url |-> src[2], sampleFrames |-> None, noiseSigma |-> None,
     model |-> None, imageBytes |-> img, imageUrl |-> None]

\* the strings int() converts, and those float() converts
IntLiterals == {"30"}
FloatLiterals == {"30", "10.0"}

\* int(task.get('sampleFrames', default)): the text of the ValueError it
\* raises, None when it returns
int_raises(v) ==
    IF v = None \/ v \in IntLiterals THEN None
    ELSE "invalid literal for int() with base 10: '" \o v \o "'"

\* float(task.get('noiseSigma', 10.0)), likewise
float_raises(v) ==
    IF v = None \/ v \in FloatLiterals THEN None
    ELSE "could not convert string to float: '" \o v \o "'"

\* Image.open(io.BytesIO(base64.b64decode(b))).convert('RGB'): the text of
\* the exception it raises, None when it returns.  "b64" is no base64 text,
\* "aGk=" is the base64 of two bytes that are no image.
decode_raises(b) ==
    CASE b = PngPixel -> None
      [] b = "aGk=" -> "cannot identify image file"
      [] OTHER -> "Incorrect padding"

IdPairs == {<<None, None>>, <<"t1", None>>, <<None, "t2">>}
Sources == {<<None, None>>, <<LocalVideo, None>>, <<None, VideoUrl>>,
            <<LocalVideo, VideoUrl>>}

\* The messages of a concurrent run: one of each shape the loop tells apart.
Messages ==
    { NotAnObject,
      Msg("VIDEO_TRADITIONAL_TEMPORAL", <<"t1", None>>, <<LocalVideo, None>>, None),
      Msg("VIDEO_AI", <<None, "t2">>, <<None, None>>, None),
      Msg("BOGUS", <<None, None>>, <<None, None>>, None) }

\* The messages of a single handling: every task type, id shape and source.
AllMessages ==
    {NotAnObject}
    \cup {Msg(ty, ids, src, None) : ty \in VideoTypes, ids \in IdPairs, src \in Sources}
    \cup {[Msg(ty, <<"t1", None>>, <<LocalVideo, None>>, None)
               EXCEPT !.sampleFrames = sf, !.noiseSigma = ns] :
              ty \in VideoTypes, sf \in {None, "30", "abc"}, ns \in {None, "10.0", "abc"}}
    \cup {Msg("IMAGE_AI", ids, <<None, None>>, img) :
              ids \in IdPairs, img \in {None, PngPixel}}
    \cup {[Msg("IMAGE_AI", <<"t1", None>>, <<None, None>>, img)
               EXCEPT !.model = m, !.imageUrl = u] :
              img \in {None, "b64", "aGk=", PngPixel},
              m \in {None, KnownModel, "nope"}, u \in {None, ImageUrl}}
    \cup {Msg(ty, ids, <<None, None>>, None) : ty \in {"VIDEO_AI", "BOGUS", None}, ids \in IdPairs}

TaskIds == {"t1", "t2"}
Keys == TaskIds \cup {None, TimeId}
\* the consumer processes of the group
Consumers == {"c1", "c2"}

\* task.get('taskId') or task.get('fileMd5')
TaskIdOf(task) == IF task.taskId # None THEN task.taskId ELSE task.fileMd5

\* task.get('taskId') or task.get('fileMd5') or str(int(time.time()))
HandlerTaskId(task) == IF TaskIdOf(task) # None THEN TaskIdOf(task) ELSE TimeId

(***************************************************************************)
(* The progress store.  A record is {progress, message} with the seconds   *)
(* ttl the key has left (NoExpiry: it has no TTL); NoRec is an absent key. *)
(***************************************************************************)
NoRec == [progress |-> 0 - 1, message |-> None, ttl |-> 0]

\* the most store calls one handler makes: 5, 10, 20, 80, three uploads, 97
MaxStoreCalls == 5 + 3

\* A fault pattern over the store calls of one handler: call number `at`
\* fails in the way `kind` (0: none does; "hset": HSET raises; "expire": HSET
\* is applied and EXPIRE raises); with `rest` every later call fails too.
Faults ==
    {[at |-> 0, kind |-> "ok", rest |-> FALSE]}
    \cup [at : 1..MaxStoreCalls, kind : {"hset", "expire"}, rest : BOOLEAN]

FaultAt(fault, i) ==
    IF fault.at = 0 \/ i < fault.at THEN "ok"
    ELSE IF i = fault.at THEN fault.kind
    ELSE IF fault.rest THEN "hset" ELSE "ok"

\* x, evaluated once, handed to F
Then(x, F(_)) == CHOOSE y \in {F(v) : v \in {x}} : TRUE

\* the next statement F of a handler: skipped while an exception is in flight
Step(x, F(_)) == CHOOSE y \in {IF v.exc # None THEN v ELSE F(v) : v \in {x}} : TRUE

NoArtifacts == [k \in {} |-> None]

(***************************************************************************)
(* The state of one handler call.  n: store calls made so far; calls: the  *)
(* update_progress calls made, each with its outcome; log: the percents    *)
(* written; rec: the record under the handler's progress key when no other *)
(* process touches it;                                                     *)
(* exc: the exception in flight (None: none); path: what                   *)
(* _ensure_video_path returned; download: whether download_video_from_url  *)
(* was called; detector: whether the detector was called; uploaded, done:  *)
(* the locals of _upload_artifacts; tried: the artifacts fput_object was   *)
(* called for; stage: the step of the task's life the call is in.          *)
(***************************************************************************)
Frame(rec) ==
    [n |-> 0, calls |-> <<>>, log |-> <<>>, rec |-> rec, exc |-> None,
     stage |-> "RECEIVED", path |-> None,
     download |-> FALSE, detector |-> FALSE, uploaded |-> NoArtifacts, done |-> 0,
     tried |-> {}]

\* one update_progress call and what became of it
StoreCall(percent, message, o) == [percent |-> percent, message |-> message, outcome |-> o]

\* rds.hset(key, mapping=payload) on the record rec the key holds: the fields
\* are overwritten, the key's TTL stays as it is, and a key that was absent
\* is created without one
hset(rec, percent, message) ==
    [progress |-> percent, message |-> message,
     ttl |-> IF rec = NoRec THEN NoExpiry ELSE rec.ttl]

\* rds.expire(key, PROGRESS_TTL): the TTL of a key that is present is set;
\* an absent key stays absent
expire(rec) == IF rec = NoRec THEN NoRec ELSE [rec EXCEPT !.ttl = PROGRESS_TTL]

\* update_progress(task_id, percent, message) as the calling handler sees
\* it, with the outcome the fault pattern gives this call
update_progress(f, percent, message, fault) ==
    LET i == f.n + 1
        o == FaultAt(fault, i)
        made == Append(f.calls, StoreCall(percent, message, o))
    IN  CASE o = "ok" ->
                [f EXCEPT !.n = i, !.calls = made, !.log = Append(@, percent),
                          !.rec = expire(hset(f.rec, percent, message))]
          [] o = "hset" ->
                [f EXCEPT !.n = i, !.calls = made, !.exc = StoreErr]
          [] o = "expire" ->
                [f EXCEPT !.n = i, !.calls = made, !.log = Append(@, percent),
                          !.rec = hset(f.rec, percent, message),
                          !.exc = StoreErr]

\* the decimal digits of a small count, as str() gives them
Str(n) ==
    CASE n = 0 -> "0" [] n = 1 -> "1" [] n = 2 -> "2" [] n = 3 -> "3"
      [] OTHER -> "n"

\* the except block of _ensure_video_path: e is the exception caught
download_failed(f, e, env) ==
    Step(update_progress([f EXCEPT !.exc = None], 100,
                         "Failed downloading video: " \o e, env.fault),
         LAMBDA g : [g EXCEPT !.exc = "Failed to download video from url: " \o e])

\* _ensure_video_path without its os.path.exists test: any localPath is taken
\* as it is
ensure_video_path_unchecked(f, tk, env) ==
    LET video_path == tk.localPath
        url == tk.url
        missing == video_path = None
    IN  IF missing /\ url # None
        THEN Then(update_progress(f, 10, "Downloading video", env.fault),
                  LAMBDA g :
                     IF g.exc # None THEN download_failed(g, g.exc, env)
                     ELSE IF env.dl = "raise"
                     THEN download_failed([g EXCEPT !.download = TRUE], DownloadErr, env)
                     ELSE [g EXCEPT !.download = TRUE, !.path = Downloaded])
        ELSE IF missing
             THEN [f EXCEPT !.exc = "localPath or downloadable url is required"]
             ELSE [f EXCEPT !.path = video_path]

(***************************************************************************)
(* _ensure_video_path(task, task_id).  env.exists: os.path.exists of the   *)
(* task's localPath; env.dl: whether download_video_from_url returns the   *)
(* path of the file it wrote or raises.                                    *)
(***************************************************************************)
_ensure_video_path(f, tk, env) ==
    LET video_path == tk.localPath
        url == tk.url
        missing == video_path = None \/ ~env.exists
    IN  IF missing /\ url # None
        THEN Then(update_progress(f, 10, "Downloading video", env.fault),
                  LAMBDA g :
                     IF g.exc # None THEN download_failed(g, g.exc, env)
                     ELSE IF env.dl = "raise"
                     THEN download_failed([g EXCEPT !.download = TRUE], DownloadErr, env)
                     ELSE [g EXCEPT !.download = TRUE, !.path = Downloaded])
        ELSE IF missing
             THEN [f EXCEPT !.exc = "localPath or downloadable url is required"]
             ELSE [f EXCEPT !.path = video_path]

(***************************************************************************)
(* _upload_artifacts(task_id, artifacts).  names: the keys of artifacts in *)
(* order; up[i]: what happens to the i-th file: "ok" (it exists and        *)
(* fput_object returns), "raise" (it exists and fput_object raises),       *)
(* "absent" (os.path.exists is false).                                     *)
(***************************************************************************)
\* one turn of the for loop, its try/except included
upload_one(f, names, i, up, fault) ==
    LET k == names[i]
        total == Len(names)
        pct == 80 + (((f.done + 1) * 15) \div total)
    IN  CASE up[i] = "absent" -> f
          [] up[i] = "raise" -> [f EXCEPT !.tried = @ \cup {k}]
          [] OTHER ->
                Then(update_progress(
                        [f EXCEPT !.tried = @ \cup {k},
                                  !.uploaded = @ @@ (k :> "url"),
                                  !.done = @ + 1],
                        pct,
                        "Uploading artifacts (" \o Str(f.done + 1) \o "/" \o Str(total) \o ")",
                        fault),
                     LAMBDA g : [g EXCEPT !.exc = None])

RECURSIVE upload_loop(_, _, _, _, _)
upload_loop(f, names, i, up, fault) ==
    IF i > Len(names) THEN f
    ELSE Then(upload_one(f, names, i, up, fault),
              LAMBDA g : upload_loop(g, names, i + 1, up, fault))

_upload_artifacts(f, names, up, client, fault) ==
    IF client THEN upload_loop(f, names, 1, up, fault) ELSE f

\* the progress messages of the video handlers at 20 and at 80
Msg20(type) ==
    IF type = "VIDEO_TRADITIONAL_COPYMOVE" THEN "Extracting keyframes"
    ELSE "Decoding & sampling frames"

Msg80(type) ==
    CASE type = "VIDEO_TRADITIONAL_NOISE" -> "Analyzing noise residuals completed"
      [] type = "VIDEO_TRADITIONAL_FLOW" -> "Optical flow analysis completed"
      [] type = "VIDEO_TRADITIONAL_FREQ" -> "Frequency domain analysis completed"
      [] type = "VIDEO_TRADITIONAL_TEMPORAL" -> "Temporal inconsistency analysis completed"
      [] OTHER -> "Copy-move detection completed"

NoData == [type |-> None]

\* the outcomes of the i-th artifact's upload, and a store that never fails
UploadOutcomes == {"ok", "raise", "absent"}
AllUploaded == [i \in 1..3 |-> "ok"]
Calm == [at |-> 0, kind |-> "ok", rest |-> FALSE]
NoEnv ==
    [exists |-> FALSE, dl |-> "ok", mkdir |-> "ok", models |-> <<KnownModel>>,
     det |-> "ok", up |-> AllUploaded, fault |-> Calm]

\* What a handler call leaves behind: the handler's state at its return or
\* raise, the progress key it wrote, the result it returned and the
\* environment it ran in; made: how many of its calls have reached the store.
Outcome(f, key, data, env) ==
    [exc |-> f.exc, data |-> IF f.exc = None THEN data ELSE NoData,
     key |-> key, rec |-> f.rec, log |-> f.log, calls |-> f.calls, made |-> 0,
     stage |-> f.stage,
     detector |-> f.detector, tried |-> f.tried, download |-> f.download,
     path |-> f.path, env |-> env]

NoRun == Outcome(Frame(NoRec), None, NoData, NoEnv)

\* the call enters the step st of the task's life
Enter(f, st) == [f EXCEPT !.stage = st]

\* the call of the detector: env.det says whether it returns or raises
run_detector(f, env) ==
    IF env.det = "raise" THEN [f EXCEPT !.detector = TRUE, !.exc = DetectorErr]
    ELSE [f EXCEPT !.detector = TRUE]

\* 'artifacts': uploaded or artifacts
ResultArtifacts(f, names) ==
    IF DOMAIN f.uploaded # {} THEN f.uploaded
    ELSE [k \in {names[i] : i \in 1..Len(names)} |-> "local"]

(***************************************************************************)
(* process_video_traditional, process_video_optical_flow,                  *)
(* process_video_frequency, process_video_temporal and                     *)
(* process_video_copymove: one body, differing in the detector called, the *)
(* messages, the artifacts and the parameters read: the noise handler      *)
(* converts sampleFrames and noiseSigma before its first progress write,   *)
(* the optical-flow and the frequency handler convert sampleFrames in the  *)
(* call of the detector, the other two read neither.  env.mkdir: whether   *)
(* os.makedirs returns or raises.  rec0 is the record under the handler's  *)
(* progress key when the call starts.                                      *)
(***************************************************************************)
\* the conversions at the head of process_video_traditional
read_parameters(f, tk) ==
    IF tk.type # "VIDEO_TRADITIONAL_NOISE" THEN f
    ELSE IF int_raises(tk.sampleFrames) # None
    THEN [f EXCEPT !.exc = int_raises(tk.sampleFrames)]
    ELSE IF float_raises(tk.noiseSigma) # None
    THEN [f EXCEPT !.exc = float_raises(tk.noiseSigma)]
    ELSE f

\* the argument sample_frames=int(task.get('sampleFrames', ...)) of the
\* detector call, evaluated before the call
read_sample_frames(f, tk) ==
    IF /\ tk.type \in {"VIDEO_TRADITIONAL_FLOW", "VIDEO_TRADITIONAL_FREQ"}
       /\ int_raises(tk.sampleFrames) # None
    THEN [f EXCEPT !.exc = int_raises(tk.sampleFrames)]
    ELSE f

\* os.makedirs(out_dir, exist_ok=True)
makedirs(f, env) == IF env.mkdir = "raise" THEN [f EXCEPT !.exc = MkdirErr] ELSE f

process_video(tk, env, client, rec0) ==
    LET task_id == HandlerTaskId(tk)
        file_md5 == IF tk.fileMd5 # None THEN tk.fileMd5 ELSE task_id
        names == ArtifactNames(tk.type)
        s0 == read_parameters(Frame(rec0), tk)
        s1 == Step(s0, LAMBDA f : update_progress(f, 5, "Task received", env.fault))
        s2 == Step(s1, LAMBDA f :
                     _ensure_video_path(Enter(f, "RESOLVING_INPUT"), tk, env))
        sm == Step(s2, LAMBDA f : makedirs(f, env))
        s3 == Step(sm, LAMBDA f :
                     update_progress(Enter(f, "ANALYZING"), 20, Msg20(tk.type), env.fault))
        sp == Step(s3, LAMBDA f : read_sample_frames(f, tk))
        s4 == Step(sp, LAMBDA f : run_detector(f, env))
        s5 == Step(s4, LAMBDA f : update_progress(f, 80, Msg80(tk.type), env.fault))
        s6 == Step(s5, LAMBDA f :
                     _upload_artifacts(Enter(f, "PUBLISHING_ARTIFACTS"), names, env.up,
                                       client, env.fault))
        s7 == Step(s6, LAMBDA f :
                     update_progress(Enter(f, "FINALIZING"), 97, "Finalizing results",
                                     env.fault))
    IN  Then(s7, LAMBDA f :
                Outcome(f, task_id,
                        [taskId |-> task_id, fileMd5 |-> file_md5, type |-> tk.type,
                         method |-> MethodOf(tk.type),
                         artifacts |-> ResultArtifacts(f, names)],
                        env))

(***************************************************************************)
(* process_image_ai.  env.models: the keys of the models registry once     *)
(* load_models has run; env.dl: whether download_image_from_url returns or *)
(* raises; env.det: whether predict_single_image returns or raises.        *)
(***************************************************************************)
\* model_name as the handler settles it
model_name_of(tk, env) ==
    IF tk.model # None THEN tk.model
    ELSE IF env.models # <<>> THEN env.models[1] ELSE None

\* the model lookup: list(models.keys())[0] for a message that names no
\* model, and the test model_name not in models
find_model(f, tk, env) ==
    IF tk.model = None /\ env.models = <<>>
    THEN [f EXCEPT !.exc = "list index out of range"]
    ELSE IF \A i \in 1..Len(env.models) : env.models[i] # model_name_of(tk, env)
    THEN [f EXCEPT !.exc = "Model " \o model_name_of(tk, env) \o " not found"]
    ELSE f

\* img: decoded from imageBytes, else downloaded from imageUrl
read_image(f, tk, env) ==
    IF tk.imageBytes # None
    THEN IF decode_raises(tk.imageBytes) # None
         THEN [f EXCEPT !.exc = decode_raises(tk.imageBytes)]
         ELSE f
    ELSE IF tk.imageUrl # None
    THEN IF env.dl = "raise" THEN [f EXCEPT !.exc = ImageDownloadErr] ELSE f
    ELSE [f EXCEPT !.exc = "No image content provided"]

process_image_ai(tk, env, rec0) ==
    LET task_id == HandlerTaskId(tk)
        s1 == update_progress(Frame(rec0), 5, "Starting image AI analysis", env.fault)
        s2 == Step(s1, LAMBDA f : find_model(Enter(f, "RESOLVING_INPUT"), tk, env))
        s3 == Step(s2, LAMBDA f : read_image(f, tk, env))
        s4 == Step(s3, LAMBDA f :
                     update_progress(Enter(f, "ANALYZING"), 50, "Running inference",
                                     env.fault))
        s5 == Step(s4, LAMBDA f : run_detector(f, env))
        s6 == Step(s5, LAMBDA f :
                     update_progress(Enter(f, "FINALIZING"), 95, "Inference completed",
                                     env.fault))
    IN  Then(s6, LAMBDA f :
                Outcome(f, task_id,
                        [taskId |-> task_id, type |-> "IMAGE_AI",
                         model |-> model_name_of(tk, env)],
                        env))

\* the VIDEO_AI placeholder branch of worker_loop
video_ai_placeholder(tk, env, rec0) ==
    Then(update_progress(Enter(Frame(rec0), "ANALYZING"), 20, "Video AI queued", env.fault),
         LAMBDA f :
            Outcome(IF f.exc = None THEN Enter(f, "FINALIZING") ELSE f, TaskIdOf(tk),
                    [taskId |-> TaskIdOf(tk), type |-> "VIDEO_AI",
                     status |-> "NOT_IMPLEMENTED"],
                    env))

\* the else branch of worker_loop's dispatch
unknown_type(tk, env, rec0) ==
    Outcome([Enter(Frame(rec0), "ANALYZING") EXCEPT
                !.exc = "Unknown task type: " \o tk.type],
            TaskIdOf(tk), NoData, env)

\* the if/elif chain of worker_loop: the handler a task type selects
dispatch(tk, env, client, store) ==
    CASE tk.type = "IMAGE_AI" ->
            process_image_ai(tk, env, store[HandlerTaskId(tk)])
      [] tk.type \in VideoTypes ->
            process_video(tk, env, client, store[HandlerTaskId(tk)])
      [] tk.type = "VIDEO_AI" ->
            video_ai_placeholder(tk, env, store[TaskIdOf(tk)])
      [] OTHER -> unknown_type(tk, env, store[TaskIdOf(tk)])

\* the store calls a handler makes at most
StoreCalls(tk) ==
    CASE tk.type \in VideoTypes -> 5 + Len(ArtifactNames(tk.type))
      [] tk.type = "IMAGE_AI" -> 3
      [] tk.type = "VIDEO_AI" -> 1
      [] OTHER -> 0

(***************************************************************************)
(* What the environment can do to one handler call, as far as the handler  *)
(* can see it: whether the local file exists (asked only of a localPath),  *)
(* the download (called only with a url), the detector, each upload (made  *)
(* only with a client), and the store: either every store call returns and *)
(* the rest varies freely, or one store fault strikes and every upload and *)
(* the detector go well, or os.makedirs raises, or no model is loaded.     *)
(***************************************************************************)
AllEnvs(tk, client) ==
    LET video == tk.type \in VideoTypes
        image == tk.type = "IMAGE_AI"
        n == Len(ArtifactNames(tk.type))
        exs == IF video /\ tk.localPath # None THEN BOOLEAN ELSE {FALSE}
        dls == IF \/ video /\ tk.url # None
                  \/ image /\ tk.imageBytes = None /\ tk.imageUrl # None
               THEN {"ok", "raise"} ELSE {"ok"}
        dets == IF video \/ image THEN {"ok", "raise"} ELSE {"ok"}
        ups == IF video /\ client
               THEN {[i \in 1..3 |-> IF i <= n THEN u[i] ELSE "ok"] :
                        u \in [1..n -> UploadOutcomes]}
               ELSE {AllUploaded}
        faults == {f \in Faults : f.at \in 1..StoreCalls(tk)}
    IN  [exists : exs, dl : dls, mkdir : {"ok"}, models : {<<KnownModel>>},
         det : dets, up : ups, fault : {Calm}]
        \cup [exists : exs, dl : dls, mkdir : {"ok"}, models : {<<KnownModel>>},
              det : {"ok"}, up : {AllUploaded}, fault : faults]
        \cup [exists : exs, dl : dls, mkdir : IF video THEN {"raise"} ELSE {},
              models : {<<KnownModel>>}, det : {"ok"}, up : {AllUploaded},
              fault : {Calm}]
        \cup [exists : exs, dl : dls, mkdir : {"ok"},
              models : IF image THEN {<<>>} ELSE {},
              det : {"ok"}, up : {AllUploaded}, fault : {Calm}]

\* The environments of a concurrent run: the file, the download and the
\* detector either way, while uploads and the handler's own store calls go
\* well (the loop's store and producer calls fail in every run).
Envs(tk, client) ==
    {e \in AllEnvs(tk, client) :
        /\ e.up = AllUploaded /\ e.fault = Calm
        /\ e.mkdir = "ok" /\ e.models # <<>>}

VARIABLES
    minio,      \* whether minio_client is set
    progress,   \* analysis:progress:<key>
    processed,  \* analysis:processed:<key>: seconds the marker has left, 0 when absent
    unguarded,  \* the task ids of which a delivery found no marker though an
                \* earlier one was being handled or had already succeeded
    results,    \* the result topic: per message key, the 'success' of each Result, in order
    written100, \* per progress key: writes of percent 100 so far
    delivered,  \* per task id: messages handed out so far
    pc,         \* per consumer: where it stands in worker_loop
    task,       \* per consumer: msg.value of the message in hand
    run,        \* per consumer: what the handling of that message did so far
    plan,       \* per consumer: the handler call under way, as it will have run
                \* in its environment when it returns or raises
    cmd,        \* per consumer: the command its next store step issues, "hset"
                \* or, inside update_progress with rds.hset returned, "expire"
    sent        \* per consumer: the Results it published for that message

VARIABLES
    job,        \* the detector call under study: detector, video, parameters
    report      \* what that call returned or raised; NoReport before it ends

detectors == <<job, report>>

vars == <<minio, progress, processed, unguarded, results, written100, delivered,
          pc, task, run, plan, cmd, sent, job, report>>

worker == <<minio, progress, processed, unguarded, results, written100, delivered,
            pc, task, run, plan, cmd, sent>>

\* no detector call is under study
NoJob == [detector |-> None]
NoReport == [raised |-> None, returned |-> FALSE]

store == <<progress, processed, results, written100>>

\* a lookup under a key that is never written
MarkerUnderWrongKey(k) == processed[TimeId] > 0

\* rds.exists(f"analysis:processed:{task_id}")
MarkerExists(k) == processed[k] > 0

\* a failure Result that carries neither the exception text nor the task
FailureResultBare(e, tk) ==
    [success |-> FALSE, data |-> NoData, error |-> "error", task |-> NotAnObject]

\* the Result messages of producer.send
SuccessResult(data) ==
    [success |-> TRUE, data |-> data, error |-> None, task |-> NotAnObject]
FailureResult(e, tk) ==
    [success |-> FALSE, data |-> NoData, error |-> e, task |-> tk]

\* how many of the percents in log are 100
Count100(log) == Cardinality({i \in 1..Len(log) : log[i] = 100})

\* how many of the Results in rs are success Results
Successes(rs) == Cardinality({i \in 1..Len(rs) : rs[i]})

TotalDelivered == delivered["t1"] + delivered["t2"] + delivered[None]

InitWorker ==
    /\ minio \in BOOLEAN
    /\ progress = [k \in Keys |-> NoRec]
    /\ processed = [k \in Keys |-> 0]
    /\ unguarded = {}
    /\ results = [k \in Keys |-> <<>>]
    /\ written100 = [k \in Keys |-> 0]
    /\ delivered = [k \in Keys |-> 0]
    /\ pc = [c \in Consumers |-> "poll"]
    /\ task = [c \in Consumers |-> NotAnObject]
    /\ run = [c \in Consumers |-> NoRun]
    /\ plan = [c \in Consumers |-> NoRun]
    /\ cmd = [c \in Consumers |-> "hset"]
    /\ sent = [c \in Consumers |-> <<>>]

Init ==
    /\ InitWorker
    /\ job = NoJob
    /\ report = NoReport

(***************************************************************************)
(* for msg in consumer: the next message is taken and its type and task id *)
(* are read.  A value that is no JSON object has no .get: the              *)
(* AttributeError is raised outside the try and ends worker_loop.          *)
(***************************************************************************)
Consume(c, msgs, limit) ==
    /\ pc[c] = "poll"
    /\ TotalDelivered < limit
    /\ \E m \in msgs :
          /\ delivered' = [delivered EXCEPT ![TaskIdOf(m)] = @ + 1]
          /\ task' = [task EXCEPT ![c] = m]
          /\ sent' = [sent EXCEPT ![c] = <<>>]
          /\ run' = [run EXCEPT ![c] = NoRun]
          /\ pc' = [pc EXCEPT ![c] = IF m.obj THEN "lookup" ELSE "crashed"]
    /\ UNCHANGED <<detectors, plan, cmd, minio, store, unguarded>>

(***************************************************************************)
(* if task_id: rds.exists(dedupe_key).  The lookup is a command of its     *)
(* own: between the poll and the lookup the other consumers and the clock  *)
(* go on, and the marker the lookup meets is the one of that moment.  A    *)
(* message without a task id is not looked up.  A lookup that raises is    *)
(* inside the try and leads to the except block.                           *)
(***************************************************************************)
Lookup(c) ==
    /\ pc[c] = "lookup"
    /\ LET task_id == TaskIdOf(task[c])
       IN  \E found \in {"ok", "raise"} :
              /\ IF task_id = None
                 THEN /\ found = "ok"
                      /\ pc' = [pc EXCEPT ![c] = "dispatch"]
                      /\ run' = run
                 ELSE IF found = "raise"
                 THEN /\ pc' = [pc EXCEPT ![c] = "except"]
                      /\ run' = [run EXCEPT ![c] =
                                    [NoRun EXCEPT !.exc = StoreErr, !.stage = "DEDUP_CHECK"]]
                 ELSE /\ pc' = [pc EXCEPT ![c] =
                                  IF MarkerExists(task_id) THEN "poll" ELSE "dispatch"]
                      /\ run' = run
              /\ unguarded' =
                    IF /\ task_id # None /\ found = "ok" /\ ~MarkerExists(task_id)
                       /\ \/ Successes(results[task_id]) > 0
                          \/ \E d \in Consumers \ {c} :
                                /\ pc[d] \in {"dispatch", "handler", "send"}
                                /\ TaskIdOf(task[d]) = task_id
                    THEN unguarded \cup {task_id}
                    ELSE unguarded
    /\ UNCHANGED <<detectors, plan, cmd, minio, store, delivered, task, sent>>

(***************************************************************************)
(* The if/elif chain enters the handler the task type selects.  What the   *)
(* handler does is settled by the task and by the environment it meets;    *)
(* its progress writes reach the store one by one, and between two of them *)
(* the other consumers and the clock go on.                                *)
(***************************************************************************)
Dispatch(c, wide) ==
    /\ pc[c] = "dispatch"
    /\ \E env \in IF wide THEN AllEnvs(task[c], minio) ELSE Envs(task[c], minio) :
          plan' = [plan EXCEPT ![c] = dispatch(task[c], env, minio, progress)]
    /\ pc' = [pc EXCEPT ![c] = "handler"]
    /\ UNCHANGED <<detectors, cmd, minio, store, unguarded, delivered, task, run, sent>>

\* rds.hset of the next update_progress call of the handler, on the record
\* the store holds now; when it raises, the call is over
HandlerWrite(c) ==
    /\ pc[c] = "handler"
    /\ cmd[c] = "hset"
    /\ plan[c].made < Len(plan[c].calls)
    /\ \E call \in {plan[c].calls[plan[c].made + 1]} :
          IF call.outcome = "hset"
          THEN /\ plan' = [plan EXCEPT ![c].made = @ + 1]
               /\ UNCHANGED <<progress, written100, run, cmd>>
          ELSE /\ progress' = [progress EXCEPT ![plan[c].key] =
                                   hset(@, call.percent, call.message)]
               /\ written100' = [written100 EXCEPT ![plan[c].key] =
                                     @ + Count100(<<call.percent>>)]
               /\ run' = [run EXCEPT ![c].log = Append(@, call.percent)]
               /\ cmd' = [cmd EXCEPT ![c] = "expire"]
               /\ plan' = plan
    /\ UNCHANGED <<detectors, minio, processed, unguarded, results, delivered, pc, task, sent>>

\* the handler returns its result or raises, its last progress write made
\* (in the VIDEO_AI branch: time.sleep(1) returns)
Return(c) ==
    /\ pc[c] = "handler"
    /\ plan[c].made = Len(plan[c].calls)
    /\ run' = [run EXCEPT ![c] = [plan[c] EXCEPT !.log = run[c].log,
                                                !.rec = progress[plan[c].key]]]
    /\ plan' = [plan EXCEPT ![c] = NoRun]
    /\ pc' = [pc EXCEPT ![c] = IF plan[c].exc = None THEN "send" ELSE "except"]
    /\ UNCHANGED <<detectors, cmd, minio, store, unguarded, delivered, task, sent>>

\* a producer that sends the success Result a second time
SendSuccessTwice(c) ==
    /\ pc[c] = "send"
    /\ \E ok \in BOOLEAN :
          LET r == SuccessResult(run[c].data)
          IN  IF ok
              THEN /\ results' = [results EXCEPT ![TaskIdOf(task[c])] =
                                     Append(Append(@, r.success), r.success)]
                   /\ sent' = [sent EXCEPT ![c] = Append(@, r)]
                   /\ pc' = [pc EXCEPT ![c] = "complete"]
                   /\ run' = run
              ELSE /\ run' = [run EXCEPT ![c].exc = SendErr]
                   /\ pc' = [pc EXCEPT ![c] = "except"]
                   /\ UNCHANGED <<results, sent>>
    /\ UNCHANGED <<detectors, plan, cmd, minio, progress, processed, unguarded, written100, delivered, task>>

\* producer.send(RESULT_TOPIC, key=task_id, value={'success': True, 'data': result})
SendSuccess(c) ==
    /\ pc[c] = "send"
    /\ \E ok \in BOOLEAN :
          LET r == SuccessResult(run[c].data)
          IN  IF ok
              THEN /\ results' = [results EXCEPT ![TaskIdOf(task[c])] = Append(@, r.success)]
                   /\ sent' = [sent EXCEPT ![c] = Append(@, r)]
                   /\ pc' = [pc EXCEPT ![c] = "complete"]
                   /\ run' = run
              ELSE /\ run' = [run EXCEPT ![c].exc = SendErr]
                   /\ pc' = [pc EXCEPT ![c] = "except"]
                   /\ UNCHANGED <<results, sent>>
    /\ UNCHANGED <<detectors, plan, cmd, minio, progress, processed, unguarded, written100, delivered, task>>

\* rds.hset of an update_progress call of worker_loop itself, on the key of
\* its own task_id; ok: the command returns
LoopWrite(c, message, ok) ==
    LET k == TaskIdOf(task[c])
    IN  IF ok
        THEN /\ progress' = [progress EXCEPT ![k] = hset(@, 100, message)]
             /\ written100' = [written100 EXCEPT ![k] = @ + 1]
             /\ run' = [run EXCEPT ![c].log = Append(@, 100)]
             /\ cmd' = [cmd EXCEPT ![c] = "expire"]
        ELSE /\ run' = [run EXCEPT ![c].exc = StoreErr]
             /\ UNCHANGED <<progress, written100, cmd>>

\* update_progress(task_id, 100, 'Completed'): its rds.hset
Complete(c) ==
    /\ pc[c] = "complete"
    /\ cmd[c] = "hset"
    /\ \E ok \in BOOLEAN :
          /\ LoopWrite(c, "Completed", ok)
          /\ pc' = [pc EXCEPT ![c] = IF ok THEN @ ELSE "except"]
    /\ UNCHANGED <<detectors, plan, minio, processed, unguarded, results, delivered, task, sent>>

\* a marker write whose exception reaches the except block of the loop
MarkProcessedRaising(c) ==
    /\ pc[c] = "mark"
    /\ \E ok \in BOOLEAN :
          /\ processed' = IF ok THEN [processed EXCEPT ![TaskIdOf(task[c])] = MARKER_TTL]
                          ELSE processed
          /\ pc' = [pc EXCEPT ![c] = IF ok THEN "poll" ELSE "except"]
          /\ run' = [run EXCEPT ![c].exc = IF ok THEN @ ELSE StoreErr]
    /\ UNCHANGED <<detectors, plan, cmd, minio, progress, unguarded, results, written100, delivered, task, sent>>

\* rds.setex(f"analysis:processed:{task_id}", 24*3600, '1'), its exception swallowed
MarkProcessed(c) ==
    /\ pc[c] = "mark"
    /\ \E ok \in BOOLEAN :
          processed' = IF ok THEN [processed EXCEPT ![TaskIdOf(task[c])] = MARKER_TTL]
                       ELSE processed
    /\ pc' = [pc EXCEPT ![c] = "poll"]
    /\ UNCHANGED <<detectors, plan, cmd, minio, progress, unguarded, results, written100, delivered, task, run, sent>>

\* except Exception as e: producer.send(... {'success': False, 'error': str(e), 'task': task})
SendFailure(c) ==
    /\ pc[c] = "except"
    /\ \E ok \in BOOLEAN :
          LET r == FailureResult(run[c].exc, task[c])
          IN  IF ok
              THEN /\ results' = [results EXCEPT ![TaskIdOf(task[c])] = Append(@, r.success)]
                   /\ sent' = [sent EXCEPT ![c] = Append(@, r)]
                   /\ pc' = [pc EXCEPT ![c] = "failed"]
              ELSE /\ pc' = [pc EXCEPT ![c] = "crashed"]
                   /\ UNCHANGED <<results, sent>>
    /\ UNCHANGED <<detectors, plan, cmd, minio, progress, processed, unguarded, written100, delivered, task, run>>

\* an except block that also marks the task as processed
FailProgressMarking(c) ==
    /\ pc[c] = "failed"
    /\ cmd[c] = "hset"
    /\ \E ok \in BOOLEAN :
          /\ LoopWrite(c, "Failed: " \o run[c].exc, ok)
          /\ pc' = [pc EXCEPT ![c] = IF ok THEN @ ELSE "crashed"]
          /\ processed' = IF ok /\ TaskIdOf(task[c]) # None
                          THEN [processed EXCEPT ![TaskIdOf(task[c])] = MARKER_TTL]
                          ELSE processed
    /\ UNCHANGED <<detectors, plan, minio, unguarded, results, delivered, task, sent>>

\* update_progress(task_id, 100, f'Failed: {e}') in the except block: its
\* rds.hset
FailProgress(c) ==
    /\ pc[c] = "failed"
    /\ cmd[c] = "hset"
    /\ \E ok \in BOOLEAN :
          /\ LoopWrite(c, "Failed: " \o run[c].exc, ok)
          /\ pc' = [pc EXCEPT ![c] = IF ok THEN @ ELSE "crashed"]
    /\ UNCHANGED <<detectors, plan, minio, processed, unguarded, results, delivered, task, sent>>

\* rds.expire(key, PROGRESS_TTL) of the update_progress call under way, on
\* the key as the store holds it now; with it the call returns, or raises
\* when the command does.  In a handler the outcome is the one the handler's
\* run goes on from; in worker_loop the try block goes on to the marker (a
\* task without id has none) and the except block to the next message, and
\* an exception leads from the try block into the except block and from the
\* except block out of worker_loop.
Expire(c) ==
    /\ cmd[c] = "expire"
    /\ cmd' = [cmd EXCEPT ![c] = "hset"]
    /\ IF pc[c] = "handler"
       THEN /\ progress' = [progress EXCEPT ![plan[c].key] =
                                IF plan[c].calls[plan[c].made + 1].outcome = "ok"
                                THEN expire(@) ELSE @]
            /\ plan' = [plan EXCEPT ![c].made = @ + 1]
            /\ UNCHANGED <<pc, run>>
       ELSE \E ok \in BOOLEAN :
               /\ progress' = [progress EXCEPT ![TaskIdOf(task[c])] =
                                   IF ok THEN expire(@) ELSE @]
               /\ run' = [run EXCEPT ![c].exc = IF ok THEN @ ELSE StoreErr]
               /\ pc' = [pc EXCEPT ![c] =
                            CASE pc[c] = "complete" /\ ~ok -> "except"
                              [] pc[c] = "complete" /\ TaskIdOf(task[c]) # None -> "mark"
                              [] pc[c] = "failed" /\ ~ok -> "crashed"
                              [] OTHER -> "poll"]
               /\ plan' = plan
    /\ UNCHANGED <<detectors, minio, processed, unguarded, results, written100, delivered, task, sent>>

\* TickSeconds pass; Redis drops the keys whose TTL has run out.
Elapse(ttl) == IF ttl > TickSeconds THEN ttl - TickSeconds ELSE 0

Tick ==
    /\ \E k \in Keys : progress[k].ttl > 0 \/ processed[k] > 0
    /\ progress' = [k \in Keys |->
                        IF progress[k].ttl <= 0 THEN progress[k]
                        ELSE IF Elapse(progress[k].ttl) = 0 THEN NoRec
                        ELSE [progress[k] EXCEPT !.ttl = Elapse(@)]]
    /\ processed' = [k \in Keys |-> Elapse(processed[k])]
    /\ UNCHANGED <<detectors, plan, cmd, minio, unguarded, results, written100, delivered, pc, task, run, sent>>

\* Consumers of one group pull from the shared task topics.
Next ==
    \/ \E c \in Consumers :
          \/ Consume(c, Messages, MaxDeliveries)
          \/ Lookup(c)
          \/ Dispatch(c, FALSE)
          \/ HandlerWrite(c)
          \/ Return(c)
          \/ SendSuccess(c)
          \/ Complete(c)
          \/ MarkProcessed(c)
          \/ SendFailure(c)
          \/ FailProgress(c)
          \/ Expire(c)
    \/ Tick

Spec == Init /\ [][Next]_vars

\* One consumer handles one message, of any shape and in any environment.
NextOne ==
    \/ Consume("c1", AllMessages, 1)
    \/ Lookup("c1")
    \/ Dispatch("c1", TRUE)
    \/ HandlerWrite("c1")
    \/ Return("c1")
    \/ SendSuccess("c1")
    \/ Complete("c1")
    \/ MarkProcessed("c1")
    \/ SendFailure("c1")
    \/ FailProgress("c1")
    \/ Expire("c1")
    \/ Tick

SpecOne == Init /\ [][NextOne]_vars
(***************************************************************************)
(* Properties of the dedup ledger (Spec).                                  *)
(***************************************************************************)
\* the percents of a handling's progress writes
Percents(log) == {log[i] : i \in 1..Len(log)}

\* every delivery so far went to consumer c1
OnlyC1 == pc["c2"] = "poll" /\ task["c2"] = NotAnObject

\* consumer c has dropped the message it holds
Dropped(c) ==
    /\ pc[c] = "poll" /\ task[c].obj /\ TaskIdOf(task[c]) # None
    /\ run[c] = NoRun /\ sent[c] = <<>>

\* this step is one of consumer c's
StepOf(c) == <<pc'[c], cmd'[c]>> # <<pc[c], cmd[c]>>

\* C1, as stated: for any task, whether its first processing succeeded or
\* failed, when its id is delivered twice in sequence to worker_loop, the
\* second time within the marker's 24 h (here: within the hour the progress
\* record of the first handling lives), the second delivery is dropped at
\* its dedup lookup, publishing nothing and writing nothing, and the id has
\* exactly one Result and exactly one progress write of 100.
C1_AnyFirstOutcome ==
    [][\A t \in TaskIds :
          (/\ OnlyC1
           /\ pc["c1"] = "lookup" /\ pc'["c1"] # "lookup"
           /\ TaskIdOf(task["c1"]) = t
           /\ delivered[t] = 2
           /\ progress[t].ttl > 0)
          => /\ pc'["c1"] = "poll"
             /\ store' = store
             /\ Len(results'[t]) = 1
             /\ written100'[t] = 1]_vars

\* C2, as stated: with consumers running concurrently against the shared
\* ledger, at most one success Result is ever published per task id.
C2_AtMostOneSuccess ==
    \A t \in TaskIds : Successes(results[t]) <= 1

\* C2, amended: a task id gets a second success Result only if one of its
\* deliveries found no marker at its dedup lookup although an earlier
\* delivery of the id was still being handled or had already succeeded (the
\* marker not yet written, its write failed, or it had expired): apart from
\* such deliveries, at most one success Result is published per task id.
C2_AtMostOneSuccessUnlessUnguarded ==
    \A t \in TaskIds : Successes(results[t]) <= 1 \/ t \in unguarded

\* two consumers took t1; one published its success, the other dropped it
C2_Witness ==
    \E c, d \in Consumers :
        /\ c # d
        /\ TaskIdOf(task[c]) = "t1" /\ pc[c] = "poll"
        /\ Len(sent[c]) = 1 /\ sent[c][1].success
        /\ Dropped(d) /\ TaskIdOf(task[d]) = "t1"
        /\ Successes(results["t1"]) = 1
        /\ "t1" \notin unguarded

\* C3, as stated: if the marker of a task id exists when a message with that
\* id is consumed, handling the message is a pure no-op: from its dedup
\* lookup on, no step of the handling invokes a detector, writes a progress
\* record, publishes a Result or changes the marker or its remaining TTL.
\* (One consumer, so that no other handling writes the marker meanwhile.)
C3_DropIsNoOp ==
    [][(/\ OnlyC1
        /\ task["c1"].obj
        /\ TaskIdOf(task["c1"]) # None
        /\ MarkerExists(TaskIdOf(task["c1"]))
        /\ \/ pc["c1"] = "lookup"
           \/ pc["c1"] \in {"except", "failed"} /\ run["c1"].stage = "DEDUP_CHECK"
        /\ StepOf("c1"))
       => /\ store' = store
          /\ ~run'["c1"].detector
          /\ sent'["c1"] = <<>>]_vars

(***************************************************************************)
(* Properties of one handling (SpecOne).                                   *)
(***************************************************************************)
\* this step ends c's handling of its message and returns it to the poll
Ends(c) == pc[c] \in {"complete", "mark", "failed"} /\ pc'[c] = "poll"

\* the last progress write of the handling was of 100
EndsAt100(log) == Len(log) > 0 /\ log[Len(log)] = 100

\* C4, as stated: every handling of a delivered task with an id that is not
\* dropped and that returns to the poll ends with the marker of its id
\* written and its last progress write being of 100, whether the task
\* succeeded or failed.
C4_MarkerAnd100Always ==
    [][\A c \in Consumers :
          Ends(c) /\ TaskIdOf(task[c]) # None
          => /\ processed'[TaskIdOf(task[c])] > 0
             /\ EndsAt100(run'[c].log)]_vars

\* the six task types of the task message's contract
SixTypes == {"IMAGE_AI"} \cup VideoTypes

\* c has handled its message to the end, its dedup lookup having returned
HandledToEnd(c) ==
    /\ pc[c] = "poll" /\ task[c].obj
    /\ run[c] # NoRun /\ run[c].stage # "DEDUP_CHECK"

\* the one Result of c's delivery is the failure Result with error e
OnlyFailure(c, e) ==
    /\ Len(sent[c]) = 1
    /\ sent[c][1].success = FALSE
    /\ sent[c][1].error = e
    /\ sent[c][1].task = task[c]

\* C5, as stated: a message whose type is none of the six known values,
\* handled until the loop is back at its poll, has a failure Result with
\* "Unknown task type" for its only Result, and no detector was invoked.
C5_SixKnownTypes ==
    \A c \in Consumers :
        HandledToEnd(c) /\ task[c].type \notin SixTypes
        => /\ OnlyFailure(c, "Unknown task type: " \o task[c].type)
           /\ ~run[c].detector

\* C6: if the input resolution or the detector (or a progress write of those
\* steps) raises for a task, no artifact upload is tried, the loop enters its
\* except block, and the Result it publishes there is {success: false, error:
\* the text of the exception, task: the message as received}, the only Result
\* of that delivery.
C6_FailureResultNoUpload ==
    \A c \in Consumers :
        /\ task[c].type \in SixTypes
        /\ run[c].stage \in {"RESOLVING_INPUT", "ANALYZING"}
        /\ run[c].exc # None
        => /\ run[c].tried = {}
           /\ run[c].data = NoData
           /\ pc[c] \in {"except", "failed", "poll", "crashed"}
           /\ pc[c] = "except" => sent[c] = <<>>
           /\ pc[c] \in {"failed", "poll"} => OnlyFailure(c, run[c].exc)

\* with a client set, a detector raised and the failure Result went out
C6_Witness ==
    /\ minio
    /\ task["c1"].type = "VIDEO_TRADITIONAL_FLOW"
    /\ run["c1"].detector /\ run["c1"].exc = DetectorErr
    /\ run["c1"].tried = {}
    /\ pc["c1"] = "failed"
    /\ OnlyFailure("c1", DetectorErr)

\* C7, as stated: no failure while handling one message stops worker_loop.
C7_LoopNeverStops ==
    \A c \in Consumers : pc[c] # "crashed"

\* C8, as stated: the artifacts map of a video handler's result holds every
\* declared artifact name; without a client each with its local path; with a
\* client, an artifact whose upload failed or whose file is absent with its
\* local path and every other with its URL, each file that exists having
\* been tried.
C8_EveryArtifactInResult ==
    \A c \in Consumers :
        run[c].data.type \in VideoTypes
        => LET names == ArtifactNames(run[c].data.type)
               a == run[c].data.artifacts
               up == run[c].env.up
           IN  /\ DOMAIN a = {names[i] : i \in 1..Len(names)}
               /\ \A i \in 1..Len(names) :
                     a[names[i]] = IF minio /\ up[i] = "ok" THEN "url" ELSE "local"
               /\ minio => run[c].tried = {names[i] : i \in {j \in 1..Len(names) :
                                                              up[j] # "absent"}}

\* the handler of c's message has returned or raised and the loop has not
\* yet written any progress of its own
HandlerLeft(c) ==
    /\ pc[c] = "send" \/ (pc[c] = "except" /\ run[c].data = NoData)
    /\ task[c].type \in VideoTypes
    /\ run[c].stage \notin {"RECEIVED", "DEDUP_CHECK"}

\* _ensure_video_path raised
ResolveRaised(c) ==
    /\ run[c].stage = "RESOLVING_INPUT" /\ run[c].exc # None
    /\ run[c].path = None /\ ~run[c].detector

\* C9: _ensure_video_path returns the task's localPath, with no download
\* attempt and no progress write (none of 10, none of 100), whenever that path
\* exists; otherwise, given a url, it announces the download (a progress
\* write that raises counts as a failed download) and returns the path
\* download_video_from_url wrote; and it raises, so that the task fails before
\* any detector runs, when there is neither an existing local path nor a url
\* ("localPath or downloadable url is required") or when the download fails
\* ("Failed to download video from url: ...").
C9_EnsureVideoPath ==
    \A c \in Consumers :
        HandlerLeft(c)
        => LET tk == task[c]
               e == run[c].env
               existing == tk.localPath # None /\ e.exists
           IN  /\ existing
                     => /\ ~ResolveRaised(c)
                        /\ run[c].path = tk.localPath
                        /\ ~run[c].download
                        /\ Percents(run[c].log) \cap {10, 100} = {}
               /\ ~existing /\ tk.url # None
                     => /\ run[c].download \/ ResolveRaised(c)
                        /\ run[c].download /\ e.dl = "ok"
                              => ~ResolveRaised(c) /\ run[c].path = Downloaded
                        /\ e.dl = "raise" => ResolveRaised(c)
                        /\ run[c].download /\ e.dl = "raise" /\ e.fault = Calm
                              => /\ run[c].exc = "Failed to download video from url: "
                                                    \o DownloadErr
                                 /\ run[c].log = <<5, 10, 100>>
               /\ ~existing /\ tk.url = None
                     => /\ ResolveRaised(c)
                        /\ ~run[c].download
                        /\ run[c].exc = "localPath or downloadable url is required"

\* a localPath that does not exist and a url: the video was downloaded and
\* the handler went on with the downloaded path
C9_Witness ==
    /\ pc["c1"] = "send"
    /\ task["c1"].type \in VideoTypes
    /\ task["c1"].localPath = LocalVideo /\ ~run["c1"].env.exists
    /\ task["c1"].url = VideoUrl
    /\ run["c1"].download /\ run["c1"].path = Downloaded
    /\ run["c1"].detector

\* C10, as stated: a handled delivery has exactly one Result, a success or a
\* failure, never both and never two, also when a store call fails after the
\* success Result was sent.
C10_ExactlyOneResult ==
    \A c \in Consumers :
        /\ Len(sent[c]) <= 1
        /\ pc[c] = "poll" /\ task[c].obj /\ run[c] # NoRun => Len(sent[c]) = 1

(***************************************************************************)
(* The detectors (src/py/VidTraditional/*.py, src/video_copy_move.py).     *)
(* A detector call is a pure function of the video as cv2.VideoCapture     *)
(* shows it, of the statistics the image routines measure on its frames    *)
(* and of the call's parameters.                                           *)
(*                                                                         *)
(* Numbers.  A measured statistic is a whole number of 1/Unit; everything  *)
(* computed from statistics is an exact fraction num/den (den > 0) in      *)
(* lowest terms, or NaN, which numpy returns for the mean of no values.    *)
(* Every comparison with a NaN is false, as in IEEE arithmetic.            *)
(*                                                                         *)
(* The code computes in binary floating point.  Unit is a power of two, so *)
(* every statistic is a binary fraction, the sums numpy forms of them are  *)
(* exact in any order, and the mean of equal values is that value.  A      *)
(* double differs from the exact number it stands for by a few units in    *)
(* the last place, far less than the distance of two unequal numbers       *)
(* formed here, so a comparison of two doubles agrees with the comparison  *)
(* of the exact numbers whenever these differ.  When they are equal and    *)
(* more than one rounded operation led to the doubles, the doubles can lie *)
(* either way: 0.75 * 0.4 is 0.30000000000000004 > 0.3.  Such a comparison *)
(* is named in Comparisons, and a call is given the set of the named       *)
(* comparisons that come out true at a tie.                                *)
(*                                                                         *)
(* A reported score carries ulp: 1 for the double that lies above the      *)
(* double nearest to num/den (the score of a tie that came out true), 0    *)
(* otherwise.                                                              *)
(***************************************************************************)
MaxFrames == 12     \* frames of the longest video
MaxCount == 10      \* largest sample_frames / num_keyframes asked for
Unit == 16          \* statistics are multiples of 1/Unit
MaxPixels == 3      \* pixels of the largest flow field
LongFrames == 31    \* frames of the one long video
LongCount == 23     \* sample_frames asked for of the long video

RECURSIVE GCD(_, _)
GCD(a, b) == IF b = 0 THEN a ELSE GCD(b, a % b)

Abs(n) == IF n < 0 THEN 0 - n ELSE n

NaN == [nan |-> TRUE, num |-> 0, den |-> 1, ulp |-> 0]

\* the fraction n/d, d > 0, in lowest terms
Q(n, d) ==
    CHOOSE q \in {[nan |-> FALSE, num |-> n \div g, den |-> d \div g, ulp |-> 0] :
                      g \in {GCD(Abs(n), d)}} : TRUE

Add(a, b) ==
    IF a.nan \/ b.nan THEN NaN
    ELSE Q(a.num * b.den + b.num * a.den, a.den * b.den)
Sub(a, b) ==
    IF a.nan \/ b.nan THEN NaN
    ELSE Q(a.num * b.den - b.num * a.den, a.den * b.den)
Mul(a, b) ==
    IF a.nan \/ b.nan THEN NaN ELSE Q(a.num * b.num, a.den * b.den)
\* a < b of two doubles
Lt(a, b) ==
    /\ ~a.nan
    /\ ~b.nan
    /\ \/ a.num * b.den < b.num * a.den
       \/ a.num * b.den = b.num * a.den /\ a.ulp < b.ulp
\* a comparison that also accepts equal numbers
GtOrEqual(a, b) ==
    /\ ~a.nan
    /\ ~b.nan
    /\ \/ a.num * b.den > b.num * a.den
       \/ a.num * b.den = b.num * a.den /\ a.ulp >= b.ulp

Gt(a, b) == Lt(b, a)
Le(a, b) ==
    /\ ~a.nan
    /\ ~b.nan
    /\ \/ a.num * b.den < b.num * a.den
       \/ a.num * b.den = b.num * a.den /\ a.ulp <= b.ulp

\* the comparisons of doubles that more than one rounded operation leads to
Comparisons == {"mag_high", "mag_low", "smooth_low", "ssim_low", "psnr_low", "score"}

\* the double of a score x that is compared with threshold: above the
\* threshold when the exact numbers are equal and the comparison comes out true
Scored(x, threshold, up) ==
    IF ~x.nan /\ x = threshold /\ "score" \in up THEN [x EXCEPT !.ulp = 1] ELSE x

\* np.clip(x, 0, 1)
clip(x) ==
    IF x.nan THEN NaN
    ELSE IF x.num < 0 THEN Q(0, 1)
    ELSE IF x.num > x.den THEN Q(1, 1)
    ELSE x

RECURSIVE Sum(_)
Sum(xs) == IF xs = <<>> THEN 0 ELSE Head(xs) + Sum(Tail(xs))

\* float(np.mean(xs)) of statistics xs: NaN (and a RuntimeWarning) for no values
mean(xs) == IF xs = <<>> THEN NaN ELSE Q(Sum(xs), Len(xs) * Unit)

\* n^2 times the variance np.std(xs)^2 of the n statistics xs, in 1/Unit^2
Spread(xs) == Len(xs) * Sum([i \in 1..Len(xs) |-> xs[i] * xs[i]]) - Sum(xs) * Sum(xs)

\* d/n > sensitivity * np.std(xs) for the n statistics xs and a whole
\* number d of 1/Unit, sensitivity = s.num/s.den, decided without the square
\* root by (s.den * d)^2 against s.num^2 * Spread.  at_tie is what the
\* comparison of the doubles gives when the two sides are equal, which the
\* rounding of mean, std, product and sum decides; with a sensitivity or a
\* std of 0 the bound is the mean itself and no rounding takes part.
Beyond(xs, d, s, at_tie) ==
    \E L2 \in {(s.den * d) * (s.den * d)}, R2 \in {s.num * s.num * Spread(xs)} :
        IF s.num >= 0
        THEN d > 0 /\ (L2 > R2 \/ (L2 = R2 /\ at_tie))
        ELSE \/ d > 0
             \/ d = 0 /\ Spread(xs) > 0
             \/ d < 0 /\ (L2 < R2 \/ (L2 = R2 /\ at_tie))

\* xs[i] < np.mean(xs) - sensitivity * np.std(xs)
BelowBand(xs, i, s, at_tie) == Beyond(xs, Sum(xs) - Len(xs) * xs[i], s, at_tie)

\* xs[i] > np.mean(xs) + sensitivity * np.std(xs)
AboveBand(xs, i, s, at_tie) == Beyond(xs, Len(xs) * xs[i] - Sum(xs), s, at_tie)

\* some statistic of xs lies exactly sensitivity * np.std(xs) from np.mean(xs)
\* on the side sign (1 above, 0 - 1 below): the comparison of the doubles can
\* come out either way
AtBand(xs, s, sign) ==
    /\ s.num # 0
    /\ \E i \in 1..Len(xs) :
          \E d \in {sign * (Len(xs) * xs[i] - Sum(xs))} :
             /\ IF s.num > 0 THEN d > 0 ELSE d < 0
             /\ (s.den * d) * (s.den * d) = s.num * s.num * Spread(xs)

(***************************************************************************)
(* The video.  total_frames: int(cap.get(cv2.CAP_PROP_FRAME_COUNT));       *)
(* unreadable: the positions at which cap.read() returns ret = False       *)
(* (every position from total_frames on is unreadable too).                *)
(***************************************************************************)
Positions(total) == 0..(total - 1)

Videos ==
    UNION {{[total_frames |-> t, unreadable |-> u] :
                u \in {{}, Positions(t)} \cup {{f} : f \in Positions(t)}} :
           t \in 0..MaxFrames}

\* cap.set(cv2.CAP_PROP_POS_FRAMES, idx); ret, frame = cap.read()
read_at(v, idx) == idx \in Positions(v.total_frames) /\ idx \notin v.unreadable

\* list(range(n))
range(n) == [i \in 1..n |-> i - 1]

\* n/d rounded to the nearest whole number, a half to the even one, as
\* round() does; n >= 0, d > 0
Round(n, d) ==
    IF 2 * (n % d) < d THEN n \div d
    ELSE IF 2 * (n % d) > d THEN n \div d + 1
    ELSE IF (n \div d) % 2 = 0 THEN n \div d ELSE n \div d + 1

\* an even spacing that rounds each real to the nearest integer
linspace_rounded(stop, num) ==
    [i \in 1..num |-> IF num = 1 THEN 0 ELSE Round((i - 1) * stop, num - 1)]

\* floor(log2(n / d)), n > 0, d > 0
RECURSIVE FloorLog2(_, _)
FloorLog2(n, d) ==
    IF n >= 2 * d THEN 1 + FloorLog2(n, 2 * d)
    ELSE IF n < d THEN FloorLog2(2 * n, d) - 1
    ELSE 0

\* 2^e
RECURSIVE Pow2(_)
Pow2(e) == IF e = 0 THEN 1 ELSE 2 * Pow2(e - 1)

\* 2^e mod m
RECURSIVE PowMod2(_, _)
PowMod2(e, m) == IF e = 0 THEN 1 % m ELSE (2 * PowMod2(e - 1, m)) % m

\* The double i * step, step the double nearest to stop / div, lies below
\* the whole number k = i * stop / div.  This happens when step was rounded
\* down, by rho / div units of its last place (rho: the remainder left by
\* the 53 bits of the quotient), and i times that exceeds half a unit of
\* the last place of the doubles below k.
FallsShort(stop, div, i) ==
    /\ (i * stop) % div = 0
    /\ i * stop > 0
    /\ \E k \in {(i * stop) \div div}, Lq \in {FloorLog2(stop, div)} :
          \E rho \in {((stop % div) * PowMod2(52 - Lq, div)) % div},
             Lk \in {IF k = Pow2(FloorLog2(k, 1)) THEN FloorLog2(k, 1) - 1
                     ELSE FloorLog2(k, 1)} :
             /\ rho # 0
             /\ 2 * rho <= div
             /\ IF Lk >= Lq THEN 2 * i * rho > div * Pow2(Lk - Lq)
                ELSE 2 * i * rho * Pow2(Lq - Lk) > div

\* np.linspace(0, stop, num, dtype=int).tolist(): step = stop / (num - 1) in
\* doubles, the i-th value is the double i * step, the last one is stop
\* itself, and each is cut down to an integer
linspace(stop, num) ==
    [i \in 1..num |->
        IF num = 1 THEN 0
        ELSE IF i = num THEN stop
        ELSE IF FallsShort(stop, num - 1, i - 1)
        THEN ((i - 1) * stop) \div (num - 1) - 1
        ELSE ((i - 1) * stop) \div (num - 1)]

\* frame_indices of analyze_optical_flow
flow_frame_indices(total_frames, sample_frames) ==
    IF total_frames < sample_frames THEN range(total_frames)
    ELSE linspace(total_frames - 2, sample_frames)

\* frame_indices of analyze_frequency_domain and of analyze_noise_pattern
frame_indices(total_frames, sample_frames) ==
    IF total_frames < sample_frames THEN range(total_frames)
    ELSE linspace(total_frames - 1, sample_frames)

\* indices of extract_keyframes, after the total_frames == 0 test
keyframe_indices(total_frames, num_frames) == linspace(total_frames - 1, num_frames)

\* the sequential reads of detect_temporal_inconsistency: how many frames
\* cap.read() hands out before it first returns ret = False
RECURSIVE frames_read(_, _)
frames_read(v, from) ==
    IF read_at(v, from) THEN 1 + frames_read(v, from + 1) ELSE 0

(***************************************************************************)
(* The calls studied.  The frames before position odd_frames measure       *)
(* job.odd, the others job.base; a pair of frames is measured at the       *)
(* position of its first frame.  Either the video, its unreadable frames   *)
(* and the number of samples vary while every frame measures the same, or  *)
(* the measurements and the sensitivity vary on a video that reads to its  *)
(* end.                                                                    *)
(***************************************************************************)
stat_at(j, idx) == IF idx < j.odd_frames THEN j.odd ELSE j.base

\* the sensitivities tried: a negative one, none, the default of the temporal
\* detector and the default of optical flow
Sensitivities == {Q(0 - 1, 1), Q(0, 1), Q(2, 1), Q(5, 2)}

\* a video long enough for a double of np.linspace to fall short of the whole
\* number it stands for: 11 * (30 / 22) is 14.999999999999998
LongVideo == [total_frames |-> LongFrames, unreadable |-> {}]

\* the videos without an unreadable frame
SoundVideos == {v \in Videos : v.unreadable = {} /\ v.total_frames > 0}

(***************************************************************************)
(* optical_flow_analysis.py                                                *)
(***************************************************************************)
\* what compute_optical_flow and calculate_flow_smoothness measure on a pair:
\* mean_magnitude >= 0, smoothness in [0, 1]
FlowStats ==
    [mean_magnitude : {0, 2 * Unit}, smoothness : {0, Unit \div 2, Unit}]

FlowJobs ==
    \/ \E v \in Videos, c \in 2..MaxCount, b \in FlowStats :
          job = [detector |-> "optical_flow", video |-> v, sample_frames |-> c,
                 sensitivity |-> Q(5, 2), base |-> b, odd |-> b, odd_frames |-> 0]
    \/ \E v \in SoundVideos, s \in Sensitivities, b \in FlowStats, o \in FlowStats :
          \E k \in 1..v.total_frames :
             job = [detector |-> "optical_flow", video |-> v,
                    sample_frames |-> MaxCount, sensitivity |-> s,
                    base |-> b, odd |-> o, odd_frames |-> k]

\* a detector that tests smoothness on both sides of its mean
detect_flow_anomalies_two_sided(flow_stats, sensitivity, up) ==
    IF Len(flow_stats) < 10 THEN {}
    ELSE
      LET magnitudes == [i \in 1..Len(flow_stats) |-> flow_stats[i].mean_magnitude]
          smoothness_values == [i \in 1..Len(flow_stats) |-> flow_stats[i].smoothness]
      IN  {i - 1 : i \in {k \in 1..Len(flow_stats) :
                             \/ AboveBand(magnitudes, k, sensitivity, "mag_high" \in up)
                             \/ BelowBand(magnitudes, k, sensitivity, "mag_low" \in up)
                             \/ AboveBand(smoothness_values, k, sensitivity,
                                          "smooth_low" \in up)
                             \/ BelowBand(smoothness_values, k, sensitivity,
                                          "smooth_low" \in up)}}

\* detect_flow_anomalies(flow_stats, sensitivity): the sorted list without
\* repeats of the anomalous positions of flow_stats, as their set; up: the
\* comparisons that come out true at a tie
detect_flow_anomalies(flow_stats, sensitivity, up) ==
    IF Len(flow_stats) < 10 THEN {}
    ELSE
      LET magnitudes == [i \in 1..Len(flow_stats) |-> flow_stats[i].mean_magnitude]
          smoothness_values == [i \in 1..Len(flow_stats) |-> flow_stats[i].smoothness]
          mag_anomalies ==
              {i - 1 : i \in {k \in 1..Len(flow_stats) :
                                 \/ AboveBand(magnitudes, k, sensitivity,
                                              "mag_high" \in up)
                                 \/ BelowBand(magnitudes, k, sensitivity,
                                              "mag_low" \in up)}}
          smooth_anomalies ==
              IF \E k \in 1..Len(flow_stats) : smoothness_values[k] > 0
              THEN {i - 1 : i \in {k \in 1..Len(flow_stats) :
                                      BelowBand(smoothness_values, k, sensitivity,
                                                "smooth_low" \in up)}}
              ELSE {}
      IN  mag_anomalies \cup smooth_anomalies

\* the comparisons of detect_flow_anomalies in which some value lies exactly
\* on the threshold
flow_ties(flow_stats, sensitivity) ==
    IF Len(flow_stats) < 10 THEN {}
    ELSE
      LET magnitudes == [i \in 1..Len(flow_stats) |-> flow_stats[i].mean_magnitude]
          smoothness_values == [i \in 1..Len(flow_stats) |-> flow_stats[i].smoothness]
      IN  {c \in {"mag_high"} : AtBand(magnitudes, sensitivity, 1)}
          \cup {c \in {"mag_low"} : AtBand(magnitudes, sensitivity, 0 - 1)}
          \cup {c \in {"smooth_low"} : AtBand(smoothness_values, sensitivity, 0 - 1)}

\* the return value of a detector call
Returned(res) == [raised |-> None, returned |-> TRUE, results |-> res]
\* the exception a detector call ends with
Raised(e) == [raised |-> e, returned |-> FALSE]

\* flow_stats of analyze_optical_flow: one entry per sampled index whose two
\* reads both return a frame
flow_stats_of(j) ==
    LET frame_idx == flow_frame_indices(j.video.total_frames, j.sample_frames)
        kept == SelectSeq(frame_idx,
                    LAMBDA idx : read_at(j.video, idx) /\ read_at(j.video, idx + 1))
    IN  [i \in 1..Len(kept) |->
            [frame_index |-> kept[i],
             mean_magnitude |-> stat_at(j, kept[i]).mean_magnitude,
             smoothness |-> stat_at(j, kept[i]).smoothness]]

\* analyze_optical_flow(video_path, output_dir, sample_frames, anomaly_sensitivity)
analyze_optical_flow(j, up) ==
    LET flow_stats == flow_stats_of(j)
        anomaly_indices == detect_flow_anomalies(flow_stats, j.sensitivity, up)
        avg_smoothness ==
            mean([i \in 1..Len(flow_stats) |-> flow_stats[i].smoothness])
        anomaly_ratio ==
            IF flow_stats # <<>>
            THEN Q(Cardinality(anomaly_indices), Len(flow_stats)) ELSE Q(0, 1)
        anomaly_score ==
            Scored(Add(Mul(anomaly_ratio, Q(1, 2)),
                       Mul(Sub(Q(1, 1), avg_smoothness), Q(1, 2))),
                   Q(7, 20), up)
    IN  Returned([total_frames |-> j.video.total_frames,
                  analyzed_frames |-> Len(flow_stats),
                  avg_flow_smoothness |-> avg_smoothness,
                  anomaly_score |-> anomaly_score,
                  is_manipulated |-> Gt(anomaly_score, Q(7, 20)),
                  num_anomalies |-> Cardinality(anomaly_indices),
                  anomalous_frames |-> anomaly_indices,
                  flow_statistics |-> flow_stats])

\* The dense flow field calcOpticalFlowFarneback returns for a frame pair: one
\* motion vector (dx, dy) per pixel, in 1/Unit px.  The vectors drawn here lie
\* on an axis, so that their length is a whole number of 1/Unit px.
FlowVectors ==
    {[dx |-> 0, dy |-> 0],
     [dx |-> Unit \div 4, dy |-> 0],
     [dx |-> 0, dy |-> Unit \div 2],
     [dx |-> 0 - (Unit \div 2 + 1), dy |-> 0],
     [dx |-> 0, dy |-> 0 - (3 * Unit) \div 4],
     [dx |-> Unit, dy |-> 0],
     [dx |-> 0, dy |-> Unit + 1],
     [dx |-> 0 - 2 * Unit, dy |-> 0]}

FlowFields == UNION {[1..n -> FlowVectors] : n \in 1..MaxPixels}

FlowFieldJobs ==
    \E f \in FlowFields : job = [detector |-> "flow_field", flow |-> f]

\* magnitude of cv2.cartToPolar(dx, dy) for a vector on an axis
cartToPolar(v) == IF v.dy = 0 THEN Abs(v.dx) ELSE Abs(v.dy)

\* float(np.sum(magnitude > 0.5) / magnitude.size)
flow_density(magnitude) ==
    Q(Cardinality({i \in DOMAIN magnitude : 2 * magnitude[i] > Unit}),
      Len(magnitude))

RECURSIVE Max(_)
Max(xs) ==
    IF Len(xs) = 1 THEN Head(xs)
    ELSE IF Head(xs) > Max(Tail(xs)) THEN Head(xs) ELSE Max(Tail(xs))

\* the statistics compute_optical_flow(frame1, frame2) derives from the flow
\* field of the pair
compute_optical_flow(flow) ==
    LET magnitude == [i \in DOMAIN flow |-> cartToPolar(flow[i])]
    IN  Returned([mean_magnitude |-> mean(magnitude),
                  max_magnitude |-> Q(Max(magnitude), Unit),
                  flow_density |-> flow_density(magnitude)])

(***************************************************************************)
(* video_frequency_analysis.py                                             *)
(***************************************************************************)
\* what analyze_frequency_bands and detect_periodic_artifacts measure on a
\* frame: the three ratios lie in [0, 1]
FreqStats ==
    {[high_freq_ratio |-> 0, spectral_centroid |-> 0,
      spectral_flatness |-> 0, has_periodic_artifacts |-> TRUE],
     [high_freq_ratio |-> Unit \div 4, spectral_centroid |-> Unit \div 4,
      spectral_flatness |-> Unit \div 4, has_periodic_artifacts |-> FALSE],
     [high_freq_ratio |-> Unit, spectral_centroid |-> Unit,
      spectral_flatness |-> Unit, has_periodic_artifacts |-> FALSE],
     [high_freq_ratio |-> Unit, spectral_centroid |-> Unit,
      spectral_flatness |-> Unit, has_periodic_artifacts |-> TRUE],
     [high_freq_ratio |-> 0, spectral_centroid |-> Unit,
      spectral_flatness |-> Unit, has_periodic_artifacts |-> FALSE],
     [high_freq_ratio |-> 0, spectral_centroid |-> Unit,
      spectral_flatness |-> Unit, has_periodic_artifacts |-> TRUE]}

\* the whole root of a square, 0 - 1 for a number that is no square; the
\* numbers rooted are Spread of at most MaxCount ratios within [0, 1]
Root(n) ==
    IF \E r \in 0..(MaxCount * Unit) : r * r = n
    THEN CHOOSE r \in 0..(MaxCount * Unit) : r * r = n
    ELSE 0 - 1

\* the entries of a read loop over frame_indices: the indices whose read
\* returns a frame, in order
sampled_frames(j) ==
    SelectSeq(frame_indices(j.video.total_frames, j.sample_frames),
              LAMBDA idx : read_at(j.video, idx))

\* freq_stats_list and artifact_stats_list of analyze_frequency_domain, in one
freq_stats_of(j) ==
    LET kept == sampled_frames(j)
    IN  [i \in 1..Len(kept) |->
            [frame_index |-> kept[i],
             high_freq_ratio |-> stat_at(j, kept[i]).high_freq_ratio,
             spectral_centroid |-> stat_at(j, kept[i]).spectral_centroid,
             spectral_flatness |-> stat_at(j, kept[i]).spectral_flatness,
             has_periodic_artifacts |-> stat_at(j, kept[i]).has_periodic_artifacts]]

high_freq_ratios(freq_stats) ==
    [i \in 1..Len(freq_stats) |-> freq_stats[i].high_freq_ratio]

\* the calls whose standard deviation of high_freq_ratio is a fraction: the
\* consistency score of the others is irrational
FreqJobs ==
    /\ \/ \E v \in Videos, c \in 2..MaxCount, b \in FreqStats :
             job = [detector |-> "frequency", video |-> v, sample_frames |-> c,
                    base |-> b, odd |-> b, odd_frames |-> 0]
       \/ \E b \in FreqStats :
             job = [detector |-> "frequency", video |-> LongVideo,
                    sample_frames |-> LongCount,
                    base |-> b, odd |-> b, odd_frames |-> 0]
       \/ \E v \in SoundVideos, b \in FreqStats, o \in FreqStats :
             \E k \in 1..v.total_frames :
                job = [detector |-> "frequency", video |-> v,
                       sample_frames |-> MaxCount,
                       base |-> b, odd |-> o, odd_frames |-> k]
    /\ Root(Spread(high_freq_ratios(freq_stats_of(job)))) >= 0

\* calculate_frequency_consistency(freq_stats): 1 / (1 + std / mean), that is
\* Sum / (Sum + n * std) with n * std the root of Spread
calculate_frequency_consistency(freq_stats) ==
    IF Len(freq_stats) < 2 THEN Q(0, 1)
    ELSE
      LET ratios == high_freq_ratios(freq_stats)
      IN  IF Sum(ratios) > 0
          THEN Q(Sum(ratios), Sum(ratios) + Root(Spread(ratios)))
          ELSE Q(0, 1)

\* analyze_frequency_domain(video_path, output_dir, sample_frames)
analyze_frequency_domain(j, up) ==
    LET freq_stats_list == freq_stats_of(j)
        n == Len(freq_stats_list)
        freq_consistency == calculate_frequency_consistency(freq_stats_list)
        avg_high_freq_ratio == mean(high_freq_ratios(freq_stats_list))
        avg_spectral_centroid ==
            mean([i \in 1..n |-> freq_stats_list[i].spectral_centroid])
        avg_spectral_flatness ==
            mean([i \in 1..n |-> freq_stats_list[i].spectral_flatness])
        frames_with_artifacts ==
            Cardinality({i \in 1..n : freq_stats_list[i].has_periodic_artifacts})
        artifact_ratio == IF n > 0 THEN Q(frames_with_artifacts, n) ELSE Q(0, 1)
        high_freq_score == clip(Mul(avg_high_freq_ratio, Q(5, 1)))
        centroid_score == clip(Mul(avg_spectral_centroid, Q(5, 2)))
        flatness_score == clip(Mul(avg_spectral_flatness, Q(5, 1)))
        artifact_score == Sub(Q(1, 1), artifact_ratio)
        authenticity_score ==
            Add(Add(Add(Add(Mul(high_freq_score, Q(3, 10)),
                            Mul(centroid_score, Q(1, 5))),
                        Mul(flatness_score, Q(1, 5))),
                    Mul(artifact_score, Q(3, 20))),
                Mul(freq_consistency, Q(3, 20)))
        anomaly_score == Scored(Sub(Q(1, 1), authenticity_score), Q(1, 2), up)
    IN  Returned([total_frames |-> j.video.total_frames,
                  analyzed_frames |-> n,
                  frequency_consistency |-> freq_consistency,
                  artifact_ratio |-> artifact_ratio,
                  gan_fingerprint_detected |-> Gt(artifact_ratio, Q(3, 10)),
                  authenticity_score |-> authenticity_score,
                  anomaly_score |-> anomaly_score,
                  is_manipulated |-> Gt(anomaly_score, Q(1, 2)),
                  frame_statistics |-> freq_stats_list])

(***************************************************************************)
(* video_noise_pattern.py                                                  *)
(***************************************************************************)
\* what analyze_noise_statistics and analyze_noise_frequency measure on the
\* noise residual of a frame; corr_next: np.corrcoef of this residual and the
\* next sample's, in [-1, 1].  entropy and kurtosis are any reals,
\* high_freq_ratio lies in [0, 1].
\* flat: the residual is constant (its standard deviation is at most 1e-8).
\* Of a constant residual np.histogram puts every pixel into one bin of
\* width 1/50, so the entropy is -50 * log2(50) = -282.19.. (here -282 - 1/5,
\* to the 1/Unit); the normalised residual fails the Kolmogorov-Smirnov test;
\* the power spectrum has no high-frequency part; and scipy.stats.kurtosis
\* returns -3 or, in the releases that detect the constant input, NaN
\* (kurtosis_nan).
NoiseStats ==
    {[entropy |-> 5 * Unit, kurtosis |-> 0, kurtosis_nan |-> FALSE, is_gaussian |-> TRUE,
      high_freq_ratio |-> Unit, corr_next |-> Unit, flat |-> FALSE],
     [entropy |-> 0 - Unit, kurtosis |-> 0 - 20 * Unit, kurtosis_nan |-> FALSE,
      is_gaussian |-> FALSE,
      high_freq_ratio |-> 0, corr_next |-> 0 - Unit, flat |-> FALSE],
     [entropy |-> (5 * Unit) \div 2, kurtosis |-> 5 * Unit, kurtosis_nan |-> FALSE,
      is_gaussian |-> TRUE,
      high_freq_ratio |-> Unit \div 4, corr_next |-> 0, flat |-> FALSE],
     [entropy |-> 5 * Unit, kurtosis |-> 0, kurtosis_nan |-> FALSE, is_gaussian |-> FALSE,
      high_freq_ratio |-> Unit, corr_next |-> Unit, flat |-> FALSE],
     [entropy |-> 0 - (282 * Unit + Unit \div 5), kurtosis |-> 0 - 3 * Unit,
      kurtosis_nan |-> FALSE, is_gaussian |-> FALSE,
      high_freq_ratio |-> 0, corr_next |-> 0, flat |-> TRUE],
     [entropy |-> 0 - (282 * Unit + Unit \div 5), kurtosis |-> 0,
      kurtosis_nan |-> TRUE, is_gaussian |-> FALSE,
      high_freq_ratio |-> 0, corr_next |-> 0, flat |-> TRUE]}

NoiseJobs ==
    \/ \E v \in Videos, c \in 2..MaxCount, b \in NoiseStats :
          job = [detector |-> "noise", video |-> v, sample_frames |-> c,
                 base |-> b, odd |-> b, odd_frames |-> 0]
    \/ \E v \in SoundVideos, b \in NoiseStats, o \in NoiseStats :
          \E k \in 1..v.total_frames :
             job = [detector |-> "noise", video |-> v, sample_frames |-> MaxCount,
                    base |-> b, odd |-> o, odd_frames |-> k]

\* noise_list, noise_stats_list and freq_stats_list of analyze_noise_pattern, in one
noise_stats_of(j) ==
    LET kept == sampled_frames(j)
    IN  [i \in 1..Len(kept) |->
            [frame_index |-> kept[i],
             entropy |-> stat_at(j, kept[i]).entropy,
             kurtosis |-> stat_at(j, kept[i]).kurtosis,
             kurtosis_nan |-> stat_at(j, kept[i]).kurtosis_nan,
             is_gaussian |-> stat_at(j, kept[i]).is_gaussian,
             high_freq_ratio |-> stat_at(j, kept[i]).high_freq_ratio,
             corr_next |-> stat_at(j, kept[i]).corr_next,
             flat |-> stat_at(j, kept[i]).flat]]

\* calculate_temporal_consistency(noise_list)
calculate_temporal_consistency(noise_list) ==
    IF Len(noise_list) < 2 THEN Q(0, 1)
    ELSE
      LET pairs == SelectSeq([i \in 1..(Len(noise_list) - 1) |-> i],
                       LAMBDA i : ~noise_list[i].flat /\ ~noise_list[i + 1].flat)
          correlations == [k \in 1..Len(pairs) |-> noise_list[pairs[k]].corr_next]
      IN  IF correlations # <<>>
          THEN Mul(Add(mean(correlations), Q(1, 1)), Q(1, 2))
          ELSE Q(0, 1)

\* generate_distribution_plot(noise_list, output_path): the exception it ends
\* with; np.concatenate of no arrays raises ValueError
generate_distribution_plot(noise_list) ==
    IF noise_list = <<>> THEN "ValueError" ELSE None

\* abs(x) of a fraction
FAbs(x) == IF x.nan THEN NaN ELSE Q(Abs(x.num), x.den)

\* analyze_noise_pattern(video_path, output_dir, sample_frames)
analyze_noise_pattern(j, up) ==
    LET noise_list == noise_stats_of(j)
        n == Len(noise_list)
        temporal_consistency == calculate_temporal_consistency(noise_list)
        avg_entropy == mean([i \in 1..n |-> noise_list[i].entropy])
        avg_kurtosis ==
            IF \E i \in 1..n : noise_list[i].kurtosis_nan THEN NaN
            ELSE mean([i \in 1..n |-> noise_list[i].kurtosis])
        gaussian_ratio ==
            IF n = 0 THEN NaN
            ELSE Q(Cardinality({i \in 1..n : noise_list[i].is_gaussian}), n)
        avg_high_freq_ratio == mean([i \in 1..n |-> noise_list[i].high_freq_ratio])
        entropy_score == clip(Mul(avg_entropy, Q(1, 5)))
        kurtosis_score == Sub(Q(1, 1), clip(Mul(FAbs(avg_kurtosis), Q(1, 10))))
        freq_score == clip(Mul(avg_high_freq_ratio, Q(3, 1)))
        authenticity_score ==
            Add(Add(Add(Add(Mul(temporal_consistency, Q(3, 10)),
                            Mul(gaussian_ratio, Q(1, 5))),
                        Mul(entropy_score, Q(1, 5))),
                    Mul(kurtosis_score, Q(3, 20))),
                Mul(freq_score, Q(3, 20)))
        anomaly_score == Scored(Sub(Q(1, 1), authenticity_score), Q(1, 2), up)
    IN  IF generate_distribution_plot(noise_list) # None
        THEN Raised(generate_distribution_plot(noise_list))
        ELSE Returned([total_frames |-> j.video.total_frames,
                       analyzed_frames |-> n,
                       temporal_consistency |-> temporal_consistency,
                       authenticity_score |-> authenticity_score,
                       anomaly_score |-> anomaly_score,
                       is_manipulated |-> Gt(anomaly_score, Q(1, 2)),
                       frame_statistics |-> noise_list])

(***************************************************************************)
(* temporal_inconsistency.py                                               *)
(***************************************************************************)
\* what calculate_frame_metrics measures on two consecutive frames:
\* ssim in [-1, 1], psnr in dB; the pair is measured at the position of its
\* second frame (frame_count)
\* the psnr of two equal frames: peak_signal_noise_ratio divides by a mean
\* squared error of 0 and returns inf
Infinity == 0 - 1

TemporalStats ==
    [ssim : {1 - Unit, 1, Unit - 1}, psnr : {20 * Unit, 40 * Unit}]
    \cup {[ssim |-> Unit, psnr |-> Infinity]}

TemporalJobs ==
    \/ \E v \in Videos, r \in {1, 2}, b \in TemporalStats :
          job = [detector |-> "temporal", video |-> v, sample_rate |-> r,
                 sensitivity |-> Q(2, 1), base |-> b, odd |-> b, odd_frames |-> 0]
    \/ \E v \in SoundVideos, s \in Sensitivities,
          b \in TemporalStats, o \in TemporalStats :
          \E k \in 1..v.total_frames :
             job = [detector |-> "temporal", video |-> v, sample_rate |-> 1,
                    sensitivity |-> s, base |-> b, odd |-> o, odd_frames |-> k]

\* detect_anomalies(metrics, sensitivity): the sorted list without repeats of
\* the anomalous positions of metrics, as their set
detect_anomalies(metrics, sensitivity, up) ==
    IF Len(metrics) < 10 THEN {}
    ELSE
      LET ssim_values == [i \in 1..Len(metrics) |-> metrics[i].ssim]
          psnr_values == [i \in 1..Len(metrics) |-> metrics[i].psnr]
          anomaly_indices ==
              {i - 1 : i \in {k \in 1..Len(metrics) :
                                 BelowBand(ssim_values, k, sensitivity,
                                           "ssim_low" \in up)}}
          \* with an inf among psnr_values their mean is inf, their std and
          \* psnr_threshold are nan, and no value is below a nan
          psnr_anomalies ==
              IF \E k \in 1..Len(metrics) : psnr_values[k] = Infinity THEN {}
              ELSE {i - 1 : i \in {k \in 1..Len(metrics) :
                                      BelowBand(psnr_values, k, sensitivity,
                                                "psnr_low" \in up)}}
      IN  anomaly_indices \cup psnr_anomalies

\* the comparisons of detect_anomalies in which some value lies exactly on
\* the threshold
temporal_ties(metrics, sensitivity) ==
    IF Len(metrics) < 10 THEN {}
    ELSE
      LET ssim_values == [i \in 1..Len(metrics) |-> metrics[i].ssim]
          psnr_values == [i \in 1..Len(metrics) |-> metrics[i].psnr]
      IN  {c \in {"ssim_low"} : AtBand(ssim_values, sensitivity, 0 - 1)}
          \cup {c \in {"psnr_low"} :
                    /\ \A k \in 1..Len(metrics) : psnr_values[k] # Infinity
                    /\ AtBand(psnr_values, sensitivity, 0 - 1)}

\* metrics of detect_temporal_inconsistency when read frames were read: the
\* pairs whose frame_count is a multiple of sample_rate
metrics_of(j, read) ==
    LET counts == SelectSeq([c \in 1..(read - 1) |-> c],
                            LAMBDA c : c % j.sample_rate = 0)
    IN  [i \in 1..Len(counts) |->
            [frame_index |-> counts[i],
             ssim |-> stat_at(j, counts[i]).ssim,
             psnr |-> stat_at(j, counts[i]).psnr]]

\* detect_temporal_inconsistency(video_path, output_dir, sample_rate,
\*                               anomaly_sensitivity)
detect_temporal_inconsistency(j, up) ==
    IF ~read_at(j.video, 0) THEN Raised("ValueError")
    ELSE
      LET metrics == metrics_of(j, frames_read(j.video, 0))
          anomaly_indices == detect_anomalies(metrics, j.sensitivity, up)
          avg_ssim == mean([i \in 1..Len(metrics) |-> metrics[i].ssim])
          anomaly_ratio ==
              IF metrics # <<>>
              THEN Q(Cardinality(anomaly_indices), Len(metrics)) ELSE Q(0, 1)
          anomaly_score ==
              Scored(Add(Mul(anomaly_ratio, Q(3, 5)),
                         Mul(Sub(Q(1, 1), avg_ssim), Q(2, 5))),
                     Q(3, 10), up)
      IN  Returned([total_frames |-> j.video.total_frames,
                    analyzed_frames |-> Len(metrics),
                    avg_ssim |-> avg_ssim,
                    anomaly_score |-> anomaly_score,
                    is_manipulated |-> Gt(anomaly_score, Q(3, 10)),
                    num_anomalies |-> Cardinality(anomaly_indices),
                    anomaly_frames |-> anomaly_indices,
                    temporal_metrics |-> metrics])

(***************************************************************************)
(* video_copy_move.py                                                      *)
(***************************************************************************)
\* One entry of flann.knnMatch(descriptors, descriptors, k=2), a pair (m, n).
\* self: m.trainIdx == m.queryIdx; distance, second: m.distance, n.distance;
\* apart: the pixels between the two keypoints m joins.
Match(self, distance, second, apart) ==
    [self |-> self, distance |-> distance, second |-> second, apart |-> apart]

\* n copies of x
Copies(x, n) == [i \in 1..n |-> x]

\* The frames tried: far matches (51 px apart), near matches (at most 50 px
\* apart, half of them exactly 50), and junk: self-matches and matches that
\* fail the ratio test by the least margin.  knnMatch gives one pair per
\* keypoint.
FrameOf(far, near, junk) ==
    [matches |->
        Copies(Match(FALSE, 1, 2, 51), far)
        \o Copies(Match(FALSE, 1, 2, 50), near \div 2)
        \o Copies(Match(FALSE, 1, 2, 10), near - near \div 2)
        \o Copies(Match(TRUE, 0, 1, 0), junk)
        \o Copies(Match(FALSE, 4, 5, 51), junk)]

CopyFrames ==
    {FrameOf(far, near, junk) : far \in {0, 9, 10}, near \in {0, 1, 10}, junk \in {1}}

CopyJobs ==
    \/ \E v \in Videos, c \in 2..MaxCount, b \in CopyFrames :
          job = [detector |-> "copy_move", video |-> v, num_keyframes |-> c,
                 min_matches |-> 10, similarity_threshold |-> Q(4, 5),
                 base |-> b, odd |-> b, odd_frames |-> 0]
    \/ \E v \in SoundVideos, b \in CopyFrames, o \in CopyFrames :
          \E k \in 1..v.total_frames :
             job = [detector |-> "copy_move", video |-> v,
                    num_keyframes |-> MaxCount,
                    min_matches |-> 10, similarity_threshold |-> Q(4, 5),
                    base |-> b, odd |-> o, odd_frames |-> k]

\* good_matches of detect_copy_move_in_frame: not a self-match, and passing
\* Lowe's ratio test
good_matches(frame, similarity_threshold) ==
    SelectSeq(frame.matches,
              LAMBDA m : /\ ~m.self
                         /\ Lt(Q(m.distance, 1),
                               Mul(similarity_threshold, Q(m.second, 1))))

\* detect_copy_move_in_frame(frame, min_matches, similarity_threshold):
\* is_forged and match_locations
detect_copy_move_in_frame(frame, min_matches, similarity_threshold) ==
    IF Len(frame.matches) < min_matches
    THEN [is_forged |-> FALSE, match_locations |-> <<>>]
    ELSE
      LET good == good_matches(frame, similarity_threshold)
          is_forged == Len(good) >= min_matches
      IN  [is_forged |-> is_forged,
           match_locations |->
               IF is_forged THEN SelectSeq(good, LAMBDA m : m.apart > 50)
               ELSE <<>>]

\* extract_keyframes(video_path, num_frames), after the total_frames == 0
\* test: the frames whose read returns a frame, as their positions
extract_keyframes(v, num_frames) ==
    SelectSeq(keyframe_indices(v.total_frames, num_frames),
              LAMBDA idx : read_at(v, idx))

\* detect_copy_move(video_path, output_dir, num_keyframes, min_matches,
\*                  similarity_threshold)
detect_copy_move(j) ==
    IF j.video.total_frames = 0 THEN Raised("ValueError")
    ELSE
      LET frames == extract_keyframes(j.video, j.num_keyframes)
          detection_results ==
              [i \in 1..Len(frames) |->
                  LET r == detect_copy_move_in_frame(stat_at(j, frames[i]),
                               j.min_matches, j.similarity_threshold)
                  IN  [frame_index |-> i - 1,
                       is_forged |-> r.is_forged,
                       num_matches |-> Len(r.match_locations)]]
          suspicious_frame_indices ==
              {i - 1 : i \in {k \in 1..Len(frames) : detection_results[k].is_forged}}
          num_forged == Cardinality(suspicious_frame_indices)
          detection_score ==
              IF frames # <<>> THEN Q(num_forged, Len(frames)) ELSE Q(0, 1)
      IN  Returned([total_frames |-> Len(frames),
                    analyzed_frames |-> j.num_keyframes,
                    detection_score |-> detection_score,
                    is_manipulated |-> Gt(detection_score, Q(1, 5)),
                    suspicious_frames |-> suspicious_frame_indices,
                    num_suspicious_frames |-> num_forged,
                    details |-> detection_results])

(***************************************************************************)
(* A detector is called on a video and runs to its return or raise.        *)
(***************************************************************************)
InitDetectors ==
    /\ InitWorker
    /\ minio = FALSE
    /\ \/ FlowJobs
       \/ FreqJobs
       \/ NoiseJobs
       \/ TemporalJobs
       \/ CopyJobs
    /\ report = NoReport

Call(detector, outcome) ==
    /\ job.detector = detector
    /\ report = NoReport
    /\ report' = outcome
    /\ UNCHANGED <<job, worker>>

\* A call draws how its comparisons of doubles come out where the exact
\* numbers are equal: the band comparisons that are at a tie, and the score.
OpticalFlow ==
    /\ job.detector = "optical_flow"
    /\ \E up \in SUBSET (flow_ties(flow_stats_of(job), job.sensitivity)
                          \cup {"score"}) :
          Call("optical_flow", analyze_optical_flow(job, up))
Frequency ==
    \E up \in SUBSET {"score"} : Call("frequency", analyze_frequency_domain(job, up))
NoisePattern ==
    \E up \in SUBSET {"score"} : Call("noise", analyze_noise_pattern(job, up))
Temporal ==
    /\ job.detector = "temporal"
    /\ \E up \in SUBSET (temporal_ties(metrics_of(job, frames_read(job.video, 0)),
                                        job.sensitivity)
                          \cup {"score"}) :
          Call("temporal", detect_temporal_inconsistency(job, up))
\* detection_score is one division, rounded as the literal 0.2 is
CopyMove == Call("copy_move", detect_copy_move(job))

NextDetectors ==
    \/ OpticalFlow
    \/ Frequency
    \/ NoisePattern
    \/ Temporal
    \/ CopyMove

SpecDetectors == InitDetectors /\ [][NextDetectors]_vars

\* compute_optical_flow applied to the flow field of one frame pair
ComputeFlow == Call("flow_field", compute_optical_flow(job.flow))

InitFlowField ==
    /\ InitWorker
    /\ minio = FALSE
    /\ FlowFieldJobs
    /\ report = NoReport

NextFlowField == ComputeFlow

SpecFlowField == InitFlowField /\ [][NextFlowField]_vars

(***************************************************************************)
(* Properties of the detectors (SpecDetectors).                            *)
(***************************************************************************)
\* the score a result reports
Score(r) ==
    IF job.detector = "copy_move" THEN r.results.detection_score
    ELSE r.results.anomaly_score

\* 0 <= x <= 1; false of NaN
InUnitInterval(x) == Le(Q(0, 1), x) /\ Le(x, Q(1, 1))

\* the statistic samples a call collected
Samples(r) ==
    IF job.detector = "copy_move" THEN r.results.total_frames
    ELSE r.results.analyzed_frames

\* C11: the score the optical-flow, frequency, noise and copy-move detectors
\* report (anomaly_score; detection_score for copy-move) lies in [0, 1] for
\* every video, whatever its frames measure and however many of them were
\* analysed.
C11_ScoreInUnitInterval ==
    (report.returned /\ job.detector # "temporal") => InUnitInterval(Score(report))

\* C12: the temporal detector's anomaly_score
\* 0.6 * anomaly_ratio + 0.4 * (1 - mean SSIM) lies in [0, 1] for every
\* sequence of frame-pair metrics with SSIM in [-1, 1] and every
\* sensitivity >= 0.
C12_TemporalScoreInUnitInterval ==
    (/\ report.returned
     /\ job.detector = "temporal"
     /\ Samples(report) > 0
     /\ job.sensitivity.num >= 0)
        => InUnitInterval(Score(report))

\* the verdict thresholds
Threshold(detector) ==
    CASE detector = "optical_flow" -> Q(7, 20)
      [] detector = "temporal" -> Q(3, 10)
      [] detector = "frequency" -> Q(1, 2)
      [] detector = "noise" -> Q(1, 2)
      [] detector = "copy_move" -> Q(1, 5)

\* x > t as doubles; false when x is NaN
StrictlyAbove(x, t) ==
    /\ ~x.nan
    /\ \/ x.num * t.den > t.num * x.den
       \/ x.num * t.den = t.num * x.den /\ x.ulp > t.ulp

\* C13: in every detector's result is_manipulated is true exactly when the
\* score is strictly greater than the detector's threshold (optical flow
\* 0.35, temporal 0.3, frequency 0.5, noise 0.5, copy-move 0.2); a score
\* equal to the threshold gives false.
C13_VerdictIsScoreAboveThreshold ==
    report.returned =>
        (report.results.is_manipulated
            <=> StrictlyAbove(Score(report), Threshold(job.detector)))

\* a result whose score equals the threshold, and one above it
C13_Witness ==
    /\ report.returned
    /\ Score(report) = Threshold(job.detector)
    /\ ~report.results.is_manipulated

\* the indices the detector of a job samples, and the count asked of it
SampledIndices(j) ==
    CASE j.detector = "optical_flow" ->
             flow_frame_indices(j.video.total_frames, j.sample_frames)
      [] j.detector \in {"frequency", "noise"} ->
             frame_indices(j.video.total_frames, j.sample_frames)
      [] j.detector = "copy_move" ->
             keyframe_indices(j.video.total_frames, j.num_keyframes)

RequestedCount(j) ==
    IF j.detector = "copy_move" THEN j.num_keyframes ELSE j.sample_frames

StrictlyIncreasing(xs) == \A i \in 1..(Len(xs) - 1) : xs[i] < xs[i + 1]

\* C14: for total_frames >= 1 and a requested count >= 2 the indices sampled
\* by optical flow, frequency, noise and copy-move are strictly increasing,
\* start at 0, stay within [0, total_frames - 1], and are exactly count
\* indices when total_frames > count, every frame of the video otherwise.
C14_SampledIndicesWellFormed ==
    (/\ report # NoReport
     /\ job.detector # "temporal"
     /\ job.video.total_frames >= 1
     /\ RequestedCount(job) >= 2)
        => /\ StrictlyIncreasing(SampledIndices(job))
           /\ SampledIndices(job) # <<>>
           /\ SampledIndices(job)[1] = 0
           /\ \A i \in DOMAIN SampledIndices(job) :
                  SampledIndices(job)[i] \in Positions(job.video.total_frames)
           /\ IF job.video.total_frames > RequestedCount(job)
              THEN Len(SampledIndices(job)) = RequestedCount(job)
              ELSE SampledIndices(job) = range(job.video.total_frames)

\* the per-frame entries of a returned result, in the order returned
SampleList(r) ==
    CASE job.detector = "optical_flow" -> r.results.flow_statistics
      [] job.detector \in {"frequency", "noise"} -> r.results.frame_statistics
      [] job.detector = "copy_move" -> r.results.details

\* the read of a sampled index fails: optical flow reads the frame and its
\* successor, the others the frame alone
ReadFailed(j, idx) ==
    IF j.detector = "optical_flow"
    THEN ~(read_at(j.video, idx) /\ read_at(j.video, idx + 1))
    ELSE ~read_at(j.video, idx)

\* the sampled indices whose read succeeded, in sampling order
ReadIndices(j) == SelectSeq(SampledIndices(j), LAMBDA idx : ~ReadFailed(j, idx))

FailedIndices(j) ==
    {SampledIndices(j)[i] : i \in {k \in DOMAIN SampledIndices(j) :
                                      ReadFailed(j, SampledIndices(j)[k])}}

\* the frame indices a result reports as gaps; a result without such a field
\* reports none
RecordedGaps(r) == IF "gaps" \in DOMAIN r.results THEN r.results.gaps ELSE {}

\* the samples are as many as the sampled indices whose read succeeded, and
\* follow their order
SamplesFollowReads ==
    /\ Len(SampleList(report)) = Len(ReadIndices(job))
    /\ job.detector # "copy_move" =>
           \A i \in DOMAIN SampleList(report) :
               SampleList(report)[i].frame_index = ReadIndices(job)[i]

\* C15: in each detector the samples number the sampled indices minus those
\* whose read failed, keep the order of the sampled indices, and every index
\* whose read failed is recorded as a gap in the result.
C15_FailedReadsRecordedAsGaps ==
    (report.returned /\ job.detector # "temporal")
        => /\ SamplesFollowReads
           /\ FailedIndices(job) \subseteq RecordedGaps(report)

\* the statistic samples the detector of a job collects
CollectedSamples(j) ==
    IF j.detector = "temporal"
    THEN Len(metrics_of(j, frames_read(j.video, 0)))
    ELSE Len(ReadIndices(j))

\* the frame indices a returned result flags; the frequency and the noise
\* result have no such list
Flagged(r) ==
    CASE job.detector = "optical_flow" -> r.results.anomalous_frames
      [] job.detector = "temporal" -> r.results.anomaly_frames
      [] job.detector = "copy_move" -> r.results.suspicious_frames
      [] OTHER -> {}

\* C16: a detector that collects fewer than 10 statistic samples, none at all
\* included, still returns a result, and the result flags no index.
C16_FewSamplesReturnNoFlags ==
    (report # NoReport /\ CollectedSamples(job) < 10)
        => /\ report.returned
           /\ Flagged(report) = {}

\* the matches of a frame that pass the distance-ratio test, are no
\* self-matches and join two points at least 50 px apart
KeptMatches(frame, similarity_threshold) ==
    SelectSeq(good_matches(frame, similarity_threshold), LAMBDA m : m.apart >= 50)

\* the frame behind the i-th entry of details
AnalysedFrame(i) == stat_at(job, extract_keyframes(job.video, job.num_keyframes)[i])

\* C17: copy-move flags a frame is_forged if and only if at least min_matches
\* of its matches are kept, a kept match passing the ratio test, being no
\* self-match and joining two points at least 50 px apart; closer matches
\* never count.
C17_ForgedIffEnoughKeptMatches ==
    (report.returned /\ job.detector = "copy_move")
        => \A i \in DOMAIN report.results.details :
               report.results.details[i].is_forged
                   <=> Len(KeptMatches(AnalysedFrame(i), job.similarity_threshold))
                           >= job.min_matches

\* the video reports no frame count, or its first frame cannot be read
VideoUnreadable(v) == v.total_frames = 0 \/ ~read_at(v, 0)

\* C18: every detector ends with an error, and returns no result, when the
\* video reports no frame count or its first frame cannot be read.
C18_UnreadableVideoRaises ==
    (report # NoReport /\ VideoUnreadable(job.video))
        => /\ report.raised # None
           /\ ~report.returned

(***************************************************************************)
(* Properties of the store's expiries (SpecOne).                           *)
(***************************************************************************)
\* the progress record under key k will expire, within PROGRESS_TTL seconds
ProgressExpires(k) == progress[k].ttl \in 1..PROGRESS_TTL

\* the dedup marker under key k will expire, within MARKER_TTL seconds
MarkerExpires(k) == processed[k] \in 1..MARKER_TTL

\* an update_progress call on key k stands between its two store commands
Updating(k) ==
    \E c \in Consumers :
        /\ cmd[c] = "expire"
        /\ k = (IF pc[c] = "handler" THEN plan[c].key ELSE TaskIdOf(task[c]))

\* C19: every progress record in the store carries an expiry of at most 3600 s
\* from its last update, also when update_progress is cut short between its
\* two store commands; every dedup marker is created with an expiry of 86400 s.
\* A record whose update is still under way is left out.
C19_RecordsAndMarkersExpire ==
    \A k \in Keys :
        /\ (progress[k] # NoRec /\ ~Updating(k)) => ProgressExpires(k)
        /\ MarkerExists(k) => MarkerExpires(k)

(***************************************************************************)
(* Progress of the loop (SpecOneFair).  worker_loop is one thread: once a  *)
(* message is taken, each statement runs when the one before it has        *)
(* returned or raised, and every call is taken to return or raise.  So the *)
(* next step of a handling that has one is eventually taken.  Nothing is   *)
(* assumed of the arrival of messages or of the clock.                     *)
(***************************************************************************)
HandlingStep(c) ==
    \/ Lookup(c)
    \/ Dispatch(c, TRUE)
    \/ HandlerWrite(c)
    \/ Return(c)
    \/ SendSuccess(c)
    \/ Complete(c)
    \/ MarkProcessed(c)
    \/ SendFailure(c)
    \/ FailProgress(c)
    \/ Expire(c)

SpecOneFair == SpecOne /\ WF_vars(HandlingStep("c1"))

\* the message in hand is still being handled
InHand(c) == pc[c] # "poll"

\* the handling is over with exactly one Result published, success or
\* failure, and 100 among the percents written for the message
SettledWithOneResult(c) ==
    /\ pc[c] = "poll"
    /\ Len(sent[c]) = 1
    /\ 100 \in Percents(run[c].log)

\* C20: every consumed message that is not dropped as a duplicate eventually
\* has exactly one Result published, success or failure, and its progress
\* written as 100, when every call returns or raises.
C20_EveryMessageSettles == InHand("c1") ~> SettledWithOneResult("c1")

(***************************************************************************)
(* Properties of the samplers, continued (SpecDetectors).                  *)
(***************************************************************************)
\* the last position the sampler of a job spreads its indices to: optical
\* flow keeps one frame back for the second frame of the pair
LastSampled(j) ==
    IF j.detector = "optical_flow" THEN j.video.total_frames - 2
    ELSE j.video.total_frames - 1

\* the job samples evenly spaced frames of a video longer than the count
SpacedSampling ==
    /\ report # NoReport
    /\ job.detector # "temporal"
    /\ RequestedCount(job) >= 2
    /\ job.video.total_frames > RequestedCount(job)

\* C21 as stated: when total_frames > count, sampled index i is
\* round(i * (total_frames - 1) / (count - 1)) for every i in 0..count-1, in
\* each detector that samples evenly spaced frames.
C21_IndicesRounded ==
    SpacedSampling =>
        \A i \in 1..RequestedCount(job) :
            SampledIndices(job)[i] =
                Round((i - 1) * (job.video.total_frames - 1), RequestedCount(job) - 1)

\* C21 amended: when total_frames > count, sampled index i is
\* i * last / (count - 1) with its fraction cut off, where last is
\* total_frames - 1, and total_frames - 2 for optical flow; where
\* i * last / (count - 1) is a whole number the index is that number or, the
\* double having fallen short of it, one less.
C21_IndicesTruncated ==
    SpacedSampling =>
        /\ Len(SampledIndices(job)) = RequestedCount(job)
        /\ \A i \in 1..RequestedCount(job) :
               \E exact \in {((i - 1) * LastSampled(job)) \div (RequestedCount(job) - 1)} :
                  \/ SampledIndices(job)[i] = exact
                  \/ /\ ((i - 1) * LastSampled(job)) % (RequestedCount(job) - 1) = 0
                     /\ SampledIndices(job)[i] = exact - 1

\* an evenly spaced sampling in which cutting off and rounding differ
C21_Witness ==
    /\ SpacedSampling
    /\ \E i \in 1..RequestedCount(job) :
          SampledIndices(job)[i] #
              Round((i - 1) * LastSampled(job), RequestedCount(job) - 1)

(***************************************************************************)
(* Properties of the optical-flow anomaly test (SpecDetectors).            *)
(***************************************************************************)
\* Len(xs) times the distance of xs[i] from the mean of xs, signed
Deviation(xs, i) == Len(xs) * xs[i] - Sum(xs)

\* xs[i] lies more than s standard deviations above (side 1) or below (side
\* 0 - 1) the mean of xs, in exact numbers: with a the distance to that side
\* times s.den * Len(xs) and b = s.num * Len(xs) * std, a > b, which is
\* a * |a| > b * |b|
Exceeds(xs, i, s, side) ==
    \E a \in {side * s.den * Deviation(xs, i)} :
        a * Abs(a) > s.num * Abs(s.num) * Spread(xs)

\* xs[i] lies exactly s standard deviations to that side of the mean, and
\* the bound is not the mean itself
OnBound(xs, i, s, side) ==
    \E a \in {side * s.den * Deviation(xs, i)} :
        /\ a * Abs(a) = s.num * Abs(s.num) * Spread(xs)
        /\ a # 0

Magnitudes(r) ==
    [i \in DOMAIN r.results.flow_statistics |->
        r.results.flow_statistics[i].mean_magnitude]

Smoothness(r) ==
    [i \in DOMAIN r.results.flow_statistics |->
        r.results.flow_statistics[i].smoothness]

\* an optical-flow call has returned with at least 10 samples
FlowTested ==
    /\ report.returned
    /\ job.detector = "optical_flow"
    /\ Len(report.results.flow_statistics) >= 10

\* the positions of the report whose sample satisfies Far
FlowPositions(Far(_)) ==
    {k - 1 : k \in {i \in DOMAIN report.results.flow_statistics : Far(i)}}

\* C22 as stated: with at least 10 samples position i is flagged exactly when
\* its mean_magnitude, or its smoothness, lies more than sensitivity standard
\* deviations from the run mean, above or below.
C22_FlagsBothSides ==
    FlowTested =>
        report.results.anomalous_frames =
            FlowPositions(LAMBDA k :
                \/ Exceeds(Magnitudes(report), k, job.sensitivity, 1)
                \/ Exceeds(Magnitudes(report), k, job.sensitivity, 0 - 1)
                \/ Exceeds(Smoothness(report), k, job.sensitivity, 1)
                \/ Exceeds(Smoothness(report), k, job.sensitivity, 0 - 1))

\* C22 amended: position i is flagged when its mean_magnitude lies more than
\* sensitivity standard deviations from the run mean, above or below, or its
\* smoothness lies more than that below the run mean; it is not flagged
\* when neither value reaches such a bound; a value exactly on a bound is
\* flagged or not as the doubles round.
C22_FlagsSmoothnessBelowOnly ==
    FlowTested =>
        /\ FlowPositions(LAMBDA k :
                \/ Exceeds(Magnitudes(report), k, job.sensitivity, 1)
                \/ Exceeds(Magnitudes(report), k, job.sensitivity, 0 - 1)
                \/ Exceeds(Smoothness(report), k, job.sensitivity, 0 - 1))
              \subseteq report.results.anomalous_frames
        /\ report.results.anomalous_frames \subseteq
              FlowPositions(LAMBDA k :
                \/ Exceeds(Magnitudes(report), k, job.sensitivity, 1)
                \/ OnBound(Magnitudes(report), k, job.sensitivity, 1)
                \/ Exceeds(Magnitudes(report), k, job.sensitivity, 0 - 1)
                \/ OnBound(Magnitudes(report), k, job.sensitivity, 0 - 1)
                \/ Exceeds(Smoothness(report), k, job.sensitivity, 0 - 1)
                \/ OnBound(Smoothness(report), k, job.sensitivity, 0 - 1))

\* a tested run with a sample whose smoothness lies far above the mean and
\* which is not flagged, and one that is flagged
C22_Witness ==
    /\ FlowTested
    /\ report.results.anomalous_frames # {}
    /\ \E k \in DOMAIN report.results.flow_statistics :
          /\ Exceeds(Smoothness(report), k, job.sensitivity, 1)
          /\ (k - 1) \notin report.results.anomalous_frames

(***************************************************************************)
(* Properties of the flow statistics of a frame pair (SpecFlowField).      *)
(***************************************************************************)
\* the pixels of the field whose vector is longer than 1.0 px
LongerThanOne(flow) ==
    {i \in DOMAIN flow :
        flow[i].dx * flow[i].dx + flow[i].dy * flow[i].dy > Unit * Unit}

\* C23: for every flow field, flow_density equals the fraction of pixels
\* whose flow magnitude is greater than 1.0 px; a pixel with magnitude in
\* (0.5, 1.0] is not counted as moving.
C23_DensityCountsAboveOne ==
    report.returned =>
        report.results.flow_density =
            Q(Cardinality(LongerThanOne(job.flow)), Len(job.flow))

(***************************************************************************)
(* Properties of the order of publish, progress 100 and marker (Spec).     *)
(***************************************************************************)
\* every Result c has published for the message in its hands is a success
OnlySuccessSent(c) ==
    /\ sent[c] # <<>>
    /\ \A i \in 1..Len(sent[c]) : sent[c][i].success

\* C24: the dedup marker for a task id is written only after a success
\* Result for that id has been published and its progress has been written
\* as 100; no marker is ever written for a delivery that ended in a failure
\* Result.
C24_MarkerAfterSuccessAnd100 ==
    [][/\ \A k \in Keys :
             processed'[k] > processed[k] =>
                \E c \in Consumers : pc[c] = "mark" /\ TaskIdOf(task[c]) = k
       /\ \A c \in Consumers :
             (pc[c] = "mark" /\ pc'[c] # "mark") =>
                /\ OnlySuccessSent(c)
                /\ Successes(results[TaskIdOf(task[c])]) > 0
                /\ EndsAt100(run[c].log)
                /\ written100[TaskIdOf(task[c])] > 0
       /\ \A c \in Consumers :
             (\E i \in 1..Len(sent[c]) : ~sent[c][i].success) =>
                /\ pc'[c] # "mark"
                /\ processed'[TaskIdOf(task[c])] > processed[TaskIdOf(task[c])]
                      => \E d \in Consumers \ {c} :
                            /\ pc[d] = "mark"
                            /\ TaskIdOf(task[d]) = TaskIdOf(task[c])]_vars

\* t1 has a marker after a success, and t2's delivery ended in a failure
\* Result and left no marker
C24_Witness ==
    /\ processed["t1"] > 0
    /\ Successes(results["t1"]) = 1
    /\ written100["t1"] > 0
    /\ pc["c2"] = "poll"
    /\ TaskIdOf(task["c2"]) = "t2"
    /\ Len(sent["c2"]) = 1 /\ ~sent["c2"][1].success
    /\ EndsAt100(run["c2"].log)
    /\ processed["t2"] = 0

(***************************************************************************)
(* Properties of the task id of a message without one (SpecOne).           *)
(***************************************************************************)
\* c holds a JSON object with neither taskId nor fileMd5 that has passed
\* the dispatch
HandlingWithoutId(c) ==
    /\ task[c].obj
    /\ TaskIdOf(task[c]) = None
    /\ run[c] # NoRun

\* the key of the progress writes of the handler c has called
HandlerKey(c) == IF pc[c] = "handler" THEN plan[c].key ELSE run[c].key

\* C25: for a message that carries neither taskId nor fileMd5, every progress
\* write made while handling it (HandlerKey: the key of the handler's writes),
\* the key of its Result message and of its final progress-100 write (the
\* loop's task_id) and the taskId inside the Result are one and the same
\* task id.
C25_OneTaskIdWithoutId ==
    \A c \in Consumers :
        HandlingWithoutId(c) =>
            /\ run[c].log # <<>> => HandlerKey(c) = TaskIdOf(task[c])
            /\ \A i \in 1..Len(sent[c]) :
                  sent[c][i].success =>
                      sent[c][i].data.taskId = TaskIdOf(task[c])

(***************************************************************************)
(* Properties of the percents of one handling (SpecOne).                   *)
(***************************************************************************)
NonDecreasing(log) == \A i \in 1..(Len(log) - 1) : log[i] <= log[i + 1]

\* the positions of log after the handler's write of 80, the first of the
\* artifact upload
AfterAnalysis(log) ==
    {i \in 1..Len(log) : \E p \in 1..(i - 1) : log[p] = 80}

\* after the write of 80 come the percents of the uploads, then the
\* handler's 97 and the loop's 100: the uploads' lie in [80, 95]
UploadsWithin(log) ==
    /\ \A i \in AfterAnalysis(log) : log[i] \in (80..95) \cup {97, 100}
    /\ Cardinality({i \in 1..Len(log) : log[i] = 97}) <= 1

\* this step is the last of c's handling of its message: the loop is back at
\* its poll, or it has stopped
Over(c) == pc[c] \notin {"poll", "crashed"} /\ pc'[c] \in {"poll", "crashed"}

\* C26, as stated: every progress percent written by the worker is an
\* integer in [0, 100]; within one handling of a message the percents written
\* are non-decreasing and, of a handling that wrote any, the last one is 100;
\* the percents written during artifact upload stay within [80, 95] for any
\* number of artifacts and of successful uploads.
C26_PercentsOfOneHandling ==
    [][\A c \in Consumers :
          /\ \A i \in 1..Len(run'[c].log) : run'[c].log[i] \in 0..100
          /\ \A k \in Keys :
                progress'[k] # NoRec => progress'[k].progress \in 0..100
          /\ NonDecreasing(run'[c].log)
          /\ UploadsWithin(run'[c].log)
          /\ (Over(c) /\ run'[c].log # <<>>) => EndsAt100(run'[c].log)]_vars

(***************************************************************************)
(* Properties of the order of the Result and the write of 100 (SpecOne).   *)
(***************************************************************************)
\* C27: whenever a progress write of 100 has been made for the message in a
\* consumer's hands, so that the task's record reads 100, a terminal Result
\* (success or failure) for it has already been published: the Result
\* publish precedes the first progress-100 write.
C27_ResultBefore100 ==
    \A c \in Consumers :
        100 \in Percents(run[c].log) => sent[c] # <<>>

(***************************************************************************)
(* Properties of the writes that follow a write of 100 (Spec).             *)
(***************************************************************************)
\* the percent consumer c writes under key k in this step: that of the
\* handler's write, or that of the loop's own write
NewWrites(c, k) ==
    IF /\ pc[c] \in {"handler", "complete", "failed"}
       /\ k = (IF pc[c] = "handler" THEN plan[c].key ELSE TaskIdOf(task[c]))
       /\ Len(run'[c].log) > Len(run[c].log)
    THEN {run'[c].log[Len(run'[c].log)]}
    ELSE {}

\* C28 as stated: once the progress of a task id has been written as 100, no
\* later progress write for that id carries a lower percent, over any
\* sequence of deliveries and redeliveries of that id to one consumer.
C28_NeverBelow100 ==
    [][OnlyC1 =>
          \A k \in Keys :
              written100[k] > 0 => \A p \in NewWrites("c1", k) : p >= 100]_vars

\* C28 amended: while the dedup marker of the id lives, no later progress
\* write for that id carries a percent lower than 100.
C28_NeverBelow100WhileMarked ==
    [][OnlyC1 =>
          \A k \in Keys :
              (written100[k] > 0 /\ processed[k] > 0)
                  => \A p \in NewWrites("c1", k) : p >= 100]_vars

\* c1 has written 100 for t1 twice, the second time for a redelivery that
\* arrived while t1's marker lived and whose dedup lookup raised
C28_Witness ==
    /\ OnlyC1
    /\ delivered["t1"] = 2
    /\ processed["t1"] > 0
    /\ written100["t1"] = 2
    /\ Successes(results["t1"]) = 1
    /\ Len(results["t1"]) = 2
    /\ progress["t1"].progress = 100

(***************************************************************************)
(* Properties of a failed marker write (Spec).                             *)
(***************************************************************************)
\* C29: a failure while writing the dedup marker after a successful task is
\* swallowed: the step of the marker write, failed or not, returns to the
\* poll with no failure Result published and with the success Result and
\* the progress records as they are; the consequence of a failed write is
\* that a later redelivery of that id, finding no marker, is processed
\* again.
C29_MarkerFailureSwallowed ==
    [][\A c \in Consumers :
          /\ (pc[c] = "mark" /\ pc'[c] # "mark") =>
                /\ pc'[c] = "poll"
                /\ OnlySuccessSent(c) /\ Len(sent[c]) = 1
                /\ EndsAt100(run[c].log)
                /\ sent' = sent /\ results' = results
                /\ progress' = progress /\ written100' = written100
                /\ run' = run
                /\ \A k \in Keys \ {TaskIdOf(task[c])} : processed'[k] = processed[k]
          /\ (/\ pc[c] = "lookup" /\ pc'[c] # "lookup"
              /\ TaskIdOf(task[c]) # None
              /\ processed[TaskIdOf(task[c])] = 0
              /\ Successes(results[TaskIdOf(task[c])]) > 0) =>
                \/ pc'[c] = "dispatch"
                \/ pc'[c] = "except" /\ run'[c].stage = "DEDUP_CHECK"]_vars

\* t1 succeeded, its marker write failed within the hour of its record, and
\* its redelivery to the same consumer has passed the dedup check
C29_Witness ==
    /\ OnlyC1
    /\ delivered["t1"] = 2
    /\ pc["c1"] = "dispatch"
    /\ TaskIdOf(task["c1"]) = "t1"
    /\ processed["t1"] = 0
    /\ results["t1"] = <<TRUE>>
    /\ progress["t1"] =
          [progress |-> 100, message |-> "Completed", ttl |-> PROGRESS_TTL]

(***************************************************************************)
(* Properties of the frame counts of a result (SpecDetectors).             *)
(***************************************************************************)
\* the per-frame statistic records a result contains
StatRecords(r) ==
    IF job.detector = "temporal" THEN r.results.temporal_metrics
    ELSE SampleList(r)

\* the requested sample count does not exceed the video length; the
\* temporal detector takes a sample rate and no count
RequestedWithinVideo(j) ==
    j.detector = "temporal" \/ RequestedCount(j) <= j.video.total_frames

\* C30: in every detector's result, analyzed_frames equals the number of
\* per-frame statistic records the result contains and total_frames equals
\* the frame count of the video, so analyzed_frames <= total_frames whenever
\* the requested sample count does not exceed the video length.
C30_FrameCounts ==
    report.returned =>
        /\ report.results.analyzed_frames = Len(StatRecords(report))
        /\ report.results.total_frames = job.video.total_frames
        /\ RequestedWithinVideo(job)
              => report.results.analyzed_frames <= report.results.total_frames

====
